---- MODULE Spec2Model ----
(***************************************************************************)
(* Production schedule reflow: the calendar arithmetic of                  *)
(* src/utils/date-utils.ts, the dependency graph of                        *)
(* src/reflow/dependency-graph.ts, the placement pass of                  *)
(* src/reflow/reflow.service.ts (the priority-aware ReflowService) and the *)
(* audit of src/reflow/constraint-checker.ts.                              *)
(*                                                                         *)
(* A DateTime is an integer: whole minutes since Monday 2025-01-06T00:00Z  *)
(* (the data model is minute-resolution, all UTC).  An ISO string is a     *)
(* record [t, fmt]: the instant it denotes and the way it is written,      *)
(* "ms" for 2025-01-06T08:00:00.000Z and "short" for 2025-01-06T08:00:00Z. *)
(* Luxon reads both and writes only the first.                             *)
(***************************************************************************)
EXTENDS Integers, Sequences, FiniteSets

VARIABLES
    workOrders,       \* reflow's input.workOrders: the caller's objects, as they now are
    inputAtCall,      \* input.workOrders as it was when reflow was called
    workCenters,      \* reflow's input.workCenters
    pc,               \* the step reflow is at
    graph,            \* ReflowService.graph: the nodes of its DependencyGraph
    sortedOrders,     \* reflow's sortedOrders
    next,             \* the position in sortedOrders of the order placed next
    workCenterSlots,  \* Map<workCenterId, ScheduledSlot[]>
    updatedMap,       \* Map<docId, WorkOrder>
    changes,          \* ReflowChange[]
    result,           \* the ReflowResult returned, [returned |-> FALSE] before
    call,             \* "first" or "second": the call under way on this ReflowService
    earlier,          \* the inputs of the calls this ReflowService served before
    validation,       \* the ValidationResult of validate(input), once it returned
    cPc,        \* calendar harness: "input" | "aligned" | "done"
    cDate,      \* calendar harness: the ISO start string
    cMinutes,   \* calendar harness: workingMinutes
    cShifts,    \* calendar harness: Shift[]
    cWindows,   \* calendar harness: MaintenanceWindow[]
    cAligned,   \* calendar harness: getNextAvailableTime(parseDate(cDate))
    cEnd,       \* calendar harness: calculateEndDateWithShiftsAndMaintenance(...)
    cShifted,   \* calendar harness: getNextShiftStart(parseDate(cDate), cShifts)
    cSlots,     \* slot harness: the occupied list given to findAvailableSlot
    cSlot,      \* slot harness: what findAvailableSlot returned
    gPc,        \* graph harness: "new" | "built" | "sorted" | "asked"
    gOrders,    \* graph harness: the work orders given to build
    gNodes,     \* graph harness: DependencyGraph.nodes
    gSort,      \* graph harness: what topologicalSort() returned
    gFrom,      \* graph harness: wouldCreateCycle's fromId
    gTo,        \* graph harness: wouldCreateCycle's toId
    gWould      \* graph harness: what wouldCreateCycle(gFrom, gTo) returned

reflowVars == <<workOrders, inputAtCall, workCenters, pc, graph, sortedOrders, next, workCenterSlots,
                updatedMap, changes, result, call, earlier, validation>>

clockVars == <<cPc, cDate, cMinutes, cShifts, cWindows, cAligned, cEnd, cShifted, cSlots, cSlot>>

graphVars == <<gPc, gOrders, gNodes, gSort, gFrom, gTo, gWould>>

vars == <<reflowVars, clockVars, graphVars>>

\* ---------------------------------------------------------------- bounds

\* the number of work orders of an input
NumOrders == 2

\* the number of nodes of a graph given to the graph harness
NumNodes == 3

\* working minutes offered to the calendar harness are 0, 90, ..., 90 * MaxDurationSteps
MaxDurationSteps == 6

\* ------------------------------------------------------------ date-utils

Min(S) == CHOOSE x \in S : \A y \in S : x <= y
Max(S) == CHOOSE x \in S : \A y \in S : x >= y

Iso(t, fmt) == [t |-> t, fmt |-> fmt]

\* DateTime.fromISO(isoString, { zone: 'utc' })
parseDate(isoString) == isoString.t

\* mutant: the seconds-only ISO form instead of the millisecond form
formatDate_short(date) == Iso(date, "short")

\* date.toISO(): always written with milliseconds and a trailing Z
formatDate(date) == Iso(date, "ms")

\* DateTime.weekday, 1 = Monday ... 7 = Sunday; minute 0 is a Monday
weekday(date) == ((date \div 1440) % 7) + 1

\* DateTime.hour
hour(date) == (date % 1440) \div 60

\* date.set({ hour: h, minute: 0, second: 0, millisecond: 0 })
setHour(date, h) == (date \div 1440) * 1440 + h * 60

luxonToSpecDayOfWeek(luxonWeekday) == luxonWeekday % 7

\* Array.find yields undefined when nothing matches
NoShift == [dayOfWeek |-> -1, startHour |-> 0, endHour |-> 0]

getShiftForDay(dayOfWeek, shifts) ==
    LET hits == {i \in 1..Len(shifts) : shifts[i].dayOfWeek = dayOfWeek}
    IN  IF hits = {} THEN NoShift ELSE shifts[Min(hits)]

isWithinShift(date, shifts) ==
    LET shift == getShiftForDay(luxonToSpecDayOfWeek(weekday(date)), shifts)
    IN  IF shift = NoShift
        THEN FALSE
        ELSE hour(date) >= shift.startHour /\ hour(date) < shift.endHour

getRemainingShiftMinutes(date, shifts) ==
    LET shift == getShiftForDay(luxonToSpecDayOfWeek(weekday(date)), shifts)
    IN  IF shift = NoShift
        THEN 0
        ELSE Max({0, setHour(date, shift.endHour) - date})

maxDays == 14

RECURSIVE NextShiftStartFrom_keepCurrent(_, _, _, _)
\* mutant: after the last day the instant reached is returned, not the date
\* the search began with
NextShiftStartFrom_keepCurrent(current, i, date, shifts) ==
    IF i >= maxDays
    THEN current
    ELSE LET shift == getShiftForDay(luxonToSpecDayOfWeek(weekday(current)), shifts)
             shiftStart == setHour(current, shift.startHour)
             shiftEnd == setHour(current, shift.endHour)
         IN  IF shift # NoShift /\ current < shiftStart
             THEN shiftStart
             ELSE IF shift # NoShift /\ current >= shiftStart /\ current < shiftEnd
             THEN current
             ELSE NextShiftStartFrom_keepCurrent(setHour(current + 1440, 0), i + 1, date,
                                                 shifts)

RECURSIVE NextShiftStartFrom(_, _, _, _)
\* the for loop of getNextShiftStart, entered with loop counter i
NextShiftStartFrom(current, i, date, shifts) ==
    IF i >= maxDays
    THEN date
    ELSE LET shift == getShiftForDay(luxonToSpecDayOfWeek(weekday(current)), shifts)
             shiftStart == setHour(current, shift.startHour)
             shiftEnd == setHour(current, shift.endHour)
         IN  IF shift # NoShift /\ current < shiftStart
             THEN shiftStart
             ELSE IF shift # NoShift /\ current >= shiftStart /\ current < shiftEnd
             THEN current
             ELSE NextShiftStartFrom(setHour(current + 1440, 0), i + 1, date, shifts)

getNextShiftStart(date, shifts) == NextShiftStartFrom(date, 0, date, shifts)

\* mutant: the working minutes added as hours
calculateEndDate_hours(startDate, workingMinutes) ==
    formatDate(parseDate(startDate) + workingMinutes * 60)

calculateEndDate(startDate, workingMinutes) ==
    formatDate(parseDate(startDate) + workingMinutes)

isInMaintenanceWindow(date, windows) ==
    \E i \in 1..Len(windows) :
        /\ date >= parseDate(windows[i].startDate)
        /\ date < parseDate(windows[i].endDate)

\* DateTime | null as [found, end]
getMaintenanceWindowEnd(date, windows) ==
    LET hits == {i \in 1..Len(windows) :
                    /\ date >= parseDate(windows[i].startDate)
                    /\ date < parseDate(windows[i].endDate)}
    IN  IF hits = {}
        THEN [found |-> FALSE, end |-> 0]
        ELSE [found |-> TRUE, end |-> parseDate(windows[Min(hits)].endDate)]

maxIterations == 1000

\* mutant: the end of a maintenance window is returned without realigning
\* to a shift and without looking for a further window
NextAvailableTimeFrom_noRealign(current, i, date, shifts, maintenanceWindows) ==
    LET shifted == IF Len(shifts) > 0 THEN getNextShiftStart(current, shifts)
                   ELSE current
        maintenanceEnd == getMaintenanceWindowEnd(shifted, maintenanceWindows)
    IN  IF maintenanceEnd.found THEN maintenanceEnd.end ELSE shifted

\* the second half of a round of getNextAvailableTime, current having been moved
\* into a shift: on to the end of a maintenance window, or the return
SkipMaintenance(shifted, maintenanceWindows) ==
    LET maintenanceEnd == getMaintenanceWindowEnd(shifted, maintenanceWindows)
    IN  IF maintenanceEnd.found
        THEN [current |-> maintenanceEnd.end, returned |-> FALSE]
        ELSE [current |-> shifted, returned |-> TRUE]

\* one round of the for loop of getNextAvailableTime; returned says that the
\* round ended in the return statement
AlignmentRound(loop, shifts, maintenanceWindows) ==
    SkipMaintenance(IF Len(shifts) > 0 THEN getNextShiftStart(loop.current, shifts)
                    ELSE loop.current,
                    maintenanceWindows)

RECURSIVE AlignmentRounds(_, _, _, _)
\* up to n rounds in a row, stopping at the round that returns; the rounds are
\* taken in two halves, which keeps the nesting of the evaluation at log n
AlignmentRounds(loop, n, shifts, maintenanceWindows) ==
    IF loop.returned \/ n <= 0
    THEN loop
    ELSE IF n = 1
    THEN AlignmentRound(loop, shifts, maintenanceWindows)
    ELSE LET half == AlignmentRounds(loop, n \div 2, shifts, maintenanceWindows)
         IN  AlignmentRounds(half, n - (n \div 2), shifts, maintenanceWindows)

\* what getNextAvailableTime returns when its loop is over: the instant the
\* loop returned, or the original date after maxIterations rounds
ReturnedOr(loop, date) == IF loop.returned THEN loop.current ELSE date

\* the for loop of getNextAvailableTime, entered with loop counter i
NextAvailableTimeFrom(current, i, date, shifts, maintenanceWindows) ==
    ReturnedOr(AlignmentRounds([current |-> current, returned |-> FALSE],
                               maxIterations - i, shifts, maintenanceWindows),
               date)

getNextAvailableTime(date, shifts, maintenanceWindows) ==
    NextAvailableTimeFrom(date, 0, date, shifts, maintenanceWindows)

\* mutant: upcoming maintenance windows are not looked at
getAvailableMinutes_shiftOnly(date, shifts, maintenanceWindows) ==
    IF Len(shifts) > 0 THEN getRemainingShiftMinutes(date, shifts) ELSE 1440

\* Infinity never leaves the function: it is replaced by 1440 on return
getAvailableMinutes(date, shifts, maintenanceWindows) ==
    LET upcoming == {parseDate(maintenanceWindows[i].startDate) - date :
                        i \in {j \in 1..Len(maintenanceWindows) :
                                  parseDate(maintenanceWindows[j].startDate) > date}}
    IN  IF Len(shifts) > 0
        THEN Min({getRemainingShiftMinutes(date, shifts)} \cup upcoming)
        ELSE IF upcoming = {} THEN 1440 ELSE Min(upcoming)

maxIterationsEnd == 10000

\* one iteration of the for loop of calculateEndDateWithShiftsAndMaintenance
EndDateIteration(loop, shifts, maintenanceWindows) ==
    LET availableMinutes == getAvailableMinutes(loop.current, shifts, maintenanceWindows)
    IN  IF availableMinutes <= 0
        THEN [current |-> getNextAvailableTime(loop.current + 1, shifts,
                                               maintenanceWindows),
              remaining |-> loop.remaining]
        ELSE IF loop.remaining <= availableMinutes
        THEN [current |-> loop.current + loop.remaining, remaining |-> 0]
        ELSE [current |-> getNextAvailableTime(loop.current + availableMinutes, shifts,
                                               maintenanceWindows),
              remaining |-> loop.remaining - availableMinutes]

RECURSIVE EndDateIterations(_, _, _, _)
\* up to n iterations in a row, stopping when remaining > 0 fails; taken in two
\* halves like the rounds of getNextAvailableTime
EndDateIterations(loop, n, shifts, maintenanceWindows) ==
    IF loop.remaining <= 0 \/ n <= 0
    THEN loop
    ELSE IF n = 1
    THEN EndDateIteration(loop, shifts, maintenanceWindows)
    ELSE LET half == EndDateIterations(loop, n \div 2, shifts, maintenanceWindows)
         IN  EndDateIterations(half, n - (n \div 2), shifts, maintenanceWindows)

\* the for loop of calculateEndDateWithShiftsAndMaintenance, entered with
\* loop counter i; yields the final value of current
EndDateFrom(current, remaining, i, shifts, maintenanceWindows) ==
    EndDateIterations([current |-> current, remaining |-> remaining],
                      maxIterationsEnd - i, shifts, maintenanceWindows).current

\* mutant: no early return for a working time of zero or less
calculateEndDateWithShiftsAndMaintenance_noEarlyReturn(startDate, workingMinutes, shifts, maintenanceWindows) ==
    IF Len(shifts) = 0 /\ Len(maintenanceWindows) = 0
    THEN calculateEndDate(startDate, workingMinutes)
    ELSE formatDate(EndDateFrom(
             getNextAvailableTime(parseDate(startDate), shifts, maintenanceWindows),
             workingMinutes, 0, shifts, maintenanceWindows))

calculateEndDateWithShiftsAndMaintenance(startDate, workingMinutes, shifts, maintenanceWindows) ==
    IF workingMinutes <= 0
    THEN startDate
    ELSE IF Len(shifts) = 0 /\ Len(maintenanceWindows) = 0
    THEN calculateEndDate(startDate, workingMinutes)
    ELSE formatDate(EndDateFrom(
             getNextAvailableTime(parseDate(startDate), shifts, maintenanceWindows),
             workingMinutes, 0, shifts, maintenanceWindows))

\* ------------------------------------------------------ dependency-nodes

\* an optional field (setupTimeMinutes?, priority?) is [some, v]
None == [some |-> FALSE, v |-> 0]
Some(v) == [some |-> TRUE, v |-> v]

\* a ?? d
OrElse(opt, d) == IF opt.some THEN opt.v ELSE d

SeqToSet(s) == {s[i] : i \in 1..Len(s)}

\* [...this.nodes.keys()]: a Map keeps its keys in insertion order
Keys(nodes) == [i \in 1..Len(nodes) |-> nodes[i].workOrderId]

\* this.nodes.has(id)
HasNode(nodes, id) == \E i \in 1..Len(nodes) : nodes[i].workOrderId = id

\* the position of id's entry; asked only when HasNode
NodeIndex(nodes, id) == CHOOSE i \in 1..Len(nodes) : nodes[i].workOrderId = id

\* this.nodes.set(id, node): a known key keeps its place
SetNode(nodes, node) ==
    IF HasNode(nodes, node.workOrderId)
    THEN [nodes EXCEPT ![NodeIndex(nodes, node.workOrderId)] = node]
    ELSE Append(nodes, node)

RECURSIVE CreateNodes(_, _, _)
\* first loop of build: one node per work order, from position k on
CreateNodes(nodes, orders, k) ==
    IF k > Len(orders)
    THEN nodes
    ELSE CreateNodes(
             SetNode(nodes, [workOrderId |-> orders[k].docId,
                             dependsOn |-> orders[k].data.dependsOnWorkOrderIds,
                             dependents |-> <<>>]),
             orders, k + 1)

RECURSIVE AddDependents(_, _, _, _)
\* second loop of build: order k's dependency j onwards, then the later orders
AddDependents(nodes, orders, k, j) ==
    IF k > Len(orders)
    THEN nodes
    ELSE IF j > Len(orders[k].data.dependsOnWorkOrderIds)
    THEN AddDependents(nodes, orders, k + 1, 1)
    ELSE LET depId == orders[k].data.dependsOnWorkOrderIds[j]
         IN  IF HasNode(nodes, depId)
             THEN AddDependents(
                      [nodes EXCEPT ![NodeIndex(nodes, depId)].dependents =
                                         Append(@, orders[k].docId)],
                      orders, k, j + 1)
             ELSE AddDependents(nodes, orders, k, j + 1)

\* mutant: the nodes of the previous build stay
clear_keep(nodes) == nodes

\* this.nodes.clear()
clear(nodes) == <<>>

\* mutant: the reverse edges are not built
build_forwardOnly(nodes, orders) == CreateNodes(clear(nodes), orders, 1)

\* DependencyGraph.build on a graph holding nodes: this.nodes.clear(), then the
\* two loops
build(nodes, orders) == AddDependents(CreateNodes(clear(nodes), orders, 1), orders, 1, 1)

getDependencies(nodes, workOrderId) ==
    IF HasNode(nodes, workOrderId)
    THEN nodes[NodeIndex(nodes, workOrderId)].dependsOn
    ELSE <<>>

getDependents(nodes, workOrderId) ==
    IF HasNode(nodes, workOrderId)
    THEN nodes[NodeIndex(nodes, workOrderId)].dependents
    ELSE <<>>

\* mutant: ids naming no node are counted too
KnownDependencyCount_all(nodes, i) == Len(nodes[i].dependsOn)

\* node.dependsOn.filter(dep => this.nodes.has(dep)).length
KnownDependencyCount(nodes, i) ==
    Cardinality({j \in 1..Len(nodes[i].dependsOn) : HasNode(nodes, nodes[i].dependsOn[j])})

RECURSIVE Relax_early(_, _, _, _, _)
\* mutant: a dependent is queued while one of its dependencies is still unsorted
Relax_early(nodes, dependents, j, inDegree, queue) ==
    IF j > Len(dependents)
    THEN [inDegree |-> inDegree, queue |-> queue]
    ELSE LET dependent == dependents[j]
             newDegree == inDegree[dependent] - 1
         IN  Relax_early(nodes, dependents, j + 1,
                         [inDegree EXCEPT ![dependent] = newDegree],
                         IF newDegree = 1 THEN Append(queue, dependent) ELSE queue)

RECURSIVE Relax(_, _, _, _, _)
\* the inner for loop of topologicalSort over node.dependents, from position j:
\* yields the in-degrees and the queue after it
Relax(nodes, dependents, j, inDegree, queue) ==
    IF j > Len(dependents)
    THEN [inDegree |-> inDegree, queue |-> queue]
    ELSE LET dependent == dependents[j]
             newDegree == inDegree[dependent] - 1
         IN  Relax(nodes, dependents, j + 1,
                   [inDegree EXCEPT ![dependent] = newDegree],
                   IF newDegree = 0 THEN Append(queue, dependent) ELSE queue)

RECURSIVE Kahn(_, _, _, _)
\* the while loop of topologicalSort: yields sorted
Kahn(nodes, inDegree, queue, sorted) ==
    IF Len(queue) = 0
    THEN sorted
    ELSE LET current == Head(queue)
             after == Relax(nodes, getDependents(nodes, current), 1, inDegree, Tail(queue))
         IN  Kahn(nodes, after.inDegree, after.queue, Append(sorted, current))

\* mutant: a cycle is never reported
topologicalSort_noCycleCheck(nodes) ==
    [sorted |-> Keys(nodes), hasCycle |-> FALSE, cycleNodes |-> <<>>]

\* mutant: only the first unresolved node is reported
topologicalSort_firstCycleNode(nodes) ==
    LET ids == SeqToSet(Keys(nodes))
        inDegree == [id \in ids |-> KnownDependencyCount(nodes, NodeIndex(nodes, id))]
        queue == SelectSeq(Keys(nodes), LAMBDA id : inDegree[id] = 0)
        sorted == Kahn(nodes, inDegree, queue, <<>>)
        left == SelectSeq(Keys(nodes), LAMBDA id : id \notin SeqToSet(sorted))
    IN  IF Len(sorted) # Len(nodes)
        THEN [sorted |-> <<>>, hasCycle |-> TRUE, cycleNodes |-> <<Head(left)>>]
        ELSE [sorted |-> sorted, hasCycle |-> FALSE, cycleNodes |-> <<>>]

\* DependencyGraph.topologicalSort (Kahn's algorithm); cycleNodes is <<>> when
\* the result carries none
topologicalSort(nodes) ==
    LET ids == SeqToSet(Keys(nodes))
        inDegree == [id \in ids |-> KnownDependencyCount(nodes, NodeIndex(nodes, id))]
        queue == SelectSeq(Keys(nodes), LAMBDA id : inDegree[id] = 0)
        sorted == Kahn(nodes, inDegree, queue, <<>>)
    IN  IF Len(sorted) # Len(nodes)
        THEN [sorted |-> <<>>, hasCycle |-> TRUE,
              cycleNodes |-> SelectSeq(Keys(nodes), LAMBDA id : id \notin SeqToSet(sorted))]
        ELSE [sorted |-> sorted, hasCycle |-> FALSE, cycleNodes |-> <<>>]

RECURSIVE WalkFrom(_, _, _, _, _)
\* the while loop of wouldCreateCycle after steps rounds: yields the answer, the
\* rounds it took and the nodes as the walk leaves them
WalkFrom(nodes, fromId, visited, stack, steps) ==
    IF Len(stack) = 0
    THEN [result |-> FALSE, steps |-> steps, nodes |-> nodes]
    ELSE LET current == stack[Len(stack)]
             rest == SubSeq(stack, 1, Len(stack) - 1)
             seen == visited \cup {current}
         IN  IF current = fromId
             THEN [result |-> TRUE, steps |-> steps + 1, nodes |-> nodes]
             ELSE IF current \in visited
             THEN WalkFrom(nodes, fromId, visited, rest, steps + 1)
             ELSE IF HasNode(nodes, current)
             THEN WalkFrom(nodes, fromId, seen,
                           rest \o SelectSeq(nodes[NodeIndex(nodes, current)].dependsOn,
                                             LAMBDA dep : dep \notin seen),
                           steps + 1)
             ELSE WalkFrom(nodes, fromId, seen, rest, steps + 1)

\* mutant: the walk starts from the dependencies of toId
wouldCreateCycle_oneOrMore(nodes, fromId, toId) ==
    WalkFrom(nodes, fromId, {}, getDependencies(nodes, toId), 0)

\* DependencyGraph.wouldCreateCycle
wouldCreateCycle(nodes, fromId, toId) == WalkFrom(nodes, fromId, {}, <<toId>>, 0)

\* -------------------------------------------------------- reflow.service

\* Map.get(k) ?? d, a Map being a function on its keys
GetOr(map, k, d) == IF k \in DOMAIN map THEN map[k] ELSE d

\* Map.set(k, v)
MapSet(map, k, v) == [x \in (DOMAIN map) \cup {k} |-> IF x = k THEN v ELSE map[x]]

RECURSIVE SumSeq(_)
SumSeq(s) == IF Len(s) = 0 THEN 0 ELSE Head(s) + SumSeq(Tail(s))

\* mutant: the clone shares the data object of the order it was made from
cloneWorkOrder_sharedData(wo) == [docId |-> wo.docId, dataRef |-> wo.dataRef, data |-> wo.data]

\* { docId, docType, data: { ...wo.data } }: a new data object, dataRef 0, while
\* the data object of the i-th order the caller passed in has dataRef i
cloneWorkOrder(wo) == [docId |-> wo.docId, dataRef |-> 0, data |-> wo.data]

\* the caller's orders after an assignment to the fields of obj.data: the one
\* whose data object obj holds, if any, shows the assigned values
WriteThrough(orders, obj) ==
    [i \in 1..Len(orders) |->
        IF obj.dataRef = i THEN [orders[i] EXCEPT !.data = obj.data] ELSE orders[i]]

overlaps(start1, end1, start2, end2) == start1 < end2 /\ end1 > start2

\* Math.round of a whole number of minutes
calculateDelayMinutes(originalEnd, newEnd) == parseDate(newEnd) - parseDate(originalEnd)

buildExplanation(changeList) ==
    IF Len(changeList) = 0
    THEN [kind |-> "No changes required.", cycleNodes |-> <<>>, count |-> 0]
    ELSE [kind |-> "Rescheduled n work order(s).", cycleNodes |-> <<>>,
          count |-> Len(changeList)]

emptyMetrics ==
    [totalDelayMinutes |-> 0, averageDelayMinutes |-> 0, maxDelayMinutes |-> 0,
     workOrdersRescheduled |-> 0, workOrdersUnchanged |-> 0,
     utilizationByWorkCenter |-> <<>>]

\* the result detectCycles returns on a cycle; [returned |-> FALSE] stands for
\* null. this.graph is left holding build(nodes, orders).
detectCycles(nodes, orders) ==
    LET sortResult == topologicalSort(build(nodes, orders))
    IN  IF sortResult.hasCycle
        THEN [returned |-> TRUE,
              updatedWorkOrders |-> [i \in 1..Len(orders) |-> cloneWorkOrder(orders[i])],
              changes |-> <<>>,
              explanation |-> [kind |-> "Cycle detected in dependencies: ",
                               cycleNodes |-> sortResult.cycleNodes, count |-> 0],
              metrics |-> emptyMetrics]
        ELSE [returned |-> FALSE]

\* mutant: the comparator of the earlier service, original start only
ComparePriority_startOnly(a, b) ==
    parseDate(a.data.startDate) - parseDate(b.data.startDate)

\* the comparator of sortByPriority
ComparePriority(a, b) ==
    LET aPriority == OrElse(a.data.priority, 3)
        bPriority == OrElse(b.data.priority, 3)
    IN  IF aPriority # bPriority
        THEN aPriority - bPriority
        ELSE parseDate(a.data.startDate) - parseDate(b.data.startDate)

RECURSIVE StableSort(_, _, _)
\* Array.prototype.sort is stable: element k onwards is inserted behind every
\* element of sorted that does not compare greater
StableSort(sorted, s, k) ==
    IF k > Len(s)
    THEN sorted
    ELSE LET n == Cardinality({j \in 1..Len(sorted) : ComparePriority(sorted[j], s[k]) <= 0})
         IN  StableSort(SubSeq(sorted, 1, n) \o <<s[k]>> \o SubSeq(sorted, n + 1, Len(sorted)),
                        s, k + 1)

\* mutant: maintenance orders are not filtered out
sortByPriority_noFilter(orders) == StableSort(<<>>, orders, 1)

sortByPriority(orders) ==
    StableSort(<<>>, SelectSeq(orders, LAMBDA wo : ~wo.data.isMaintenance), 1)

\* mutant: the new slot takes the place of the ones recorded before
addSlot_replace(slots, workCenterId, slot) == MapSet(slots, workCenterId, <<slot>>)

addSlot(slots, workCenterId, slot) ==
    MapSet(slots, workCenterId, Append(GetOr(slots, workCenterId, <<>>), slot))

RECURSIVE scheduleMaintenanceOrdersFrom(_, _, _, _)
\* the loop of scheduleMaintenanceOrders from order k: yields both maps
scheduleMaintenanceOrdersFrom(orders, k, slotMap, updated) ==
    IF k > Len(orders)
    THEN [workCenterSlots |-> slotMap, updatedMap |-> updated]
    ELSE LET wo == orders[k]
         IN  IF wo.data.isMaintenance
             THEN scheduleMaintenanceOrdersFrom(orders, k + 1,
                      addSlot(slotMap, wo.data.workCenterId,
                              [workOrderId |-> wo.docId,
                               start |-> parseDate(wo.data.startDate),
                               end |-> parseDate(wo.data.endDate)]),
                      MapSet(updated, wo.docId, cloneWorkOrder(wo)))
             ELSE scheduleMaintenanceOrdersFrom(orders, k + 1, slotMap, updated)

\* mutant: every order, schedulable or not, is entered in updatedMap with its
\* input dates before the placement starts
scheduleMaintenanceOrders_seedAll(orders, slotMap, updated) ==
    LET seeded == scheduleMaintenanceOrdersFrom(orders, 1, slotMap, updated)
        ids == {orders[i].docId : i \in 1..Len(orders)}
    IN  [workCenterSlots |-> seeded.workCenterSlots,
         updatedMap |->
             [id \in (DOMAIN seeded.updatedMap) \cup ids |->
                 IF id \in DOMAIN seeded.updatedMap
                 THEN seeded.updatedMap[id]
                 ELSE cloneWorkOrder(
                          orders[CHOOSE i \in 1..Len(orders) : orders[i].docId = id])]]

scheduleMaintenanceOrders(orders, slotMap, updated) ==
    scheduleMaintenanceOrdersFrom(orders, 1, slotMap, updated)

\* mutant: an id naming no work center gets the Mon-Fri 08:00-17:00 shifts
getWorkCenter_defaultShifts(centers, id) ==
    LET hits == {i \in 1..Len(centers) : centers[i].docId = id}
    IN  IF hits = {}
        THEN [found |-> FALSE, shifts |-> [i \in 1..5 |-> [dayOfWeek |-> i, startHour |-> 8,
                                                          endHour |-> 17]],
              maintenanceWindows |-> <<>>]
        ELSE [found |-> TRUE, shifts |-> centers[Max(hits)].data.shifts,
              maintenanceWindows |-> centers[Max(hits)].data.maintenanceWindows]

\* buildWorkCenterMap, then workCenterMap.get(id): the last work center of that
\* id, or undefined ([found |-> FALSE])
getWorkCenter(centers, id) ==
    LET hits == {i \in 1..Len(centers) : centers[i].docId = id}
    IN  IF hits = {}
        THEN [found |-> FALSE, shifts |-> <<>>, maintenanceWindows |-> <<>>]
        ELSE [found |-> TRUE, shifts |-> centers[Max(hits)].data.shifts,
              maintenanceWindows |-> centers[Max(hits)].data.maintenanceWindows]

RECURSIVE LatestDependencyEnd(_, _, _, _)
\* the loop of findEarliestStart over the dependency ids, from position j
LatestDependencyEnd(earliest, dependencies, j, updated) ==
    IF j > Len(dependencies)
    THEN earliest
    ELSE LET depId == dependencies[j]
         IN  IF depId \in DOMAIN updated /\ parseDate(updated[depId].data.endDate) > earliest
             THEN LatestDependencyEnd(parseDate(updated[depId].data.endDate),
                                      dependencies, j + 1, updated)
             ELSE LatestDependencyEnd(earliest, dependencies, j + 1, updated)

\* mutant: the dependencies are not waited for
findEarliestStart_ignoreDeps(nodes, wo, updated, shifts, maintenanceWindows) ==
    getNextAvailableTime(parseDate(wo.data.startDate), shifts, maintenanceWindows)

\* mutant: the earliest start is not aligned to the calendar
findEarliestStart_unaligned(nodes, wo, updated, shifts, maintenanceWindows) ==
    LatestDependencyEnd(parseDate(wo.data.startDate), getDependencies(nodes, wo.docId), 1,
                        updated)

\* mutant: the earliest start is the last dependency end, the order's own start
\* counting only when it has no placed dependency
findEarliestStart_dependencyEnd(nodes, wo, updated, shifts, maintenanceWindows) ==
    LET dependencies == getDependencies(nodes, wo.docId)
        latest == LatestDependencyEnd(0, dependencies, 1, updated)
    IN  getNextAvailableTime(
            IF \E j \in 1..Len(dependencies) : dependencies[j] \in DOMAIN updated
            THEN latest
            ELSE parseDate(wo.data.startDate),
            shifts, maintenanceWindows)

findEarliestStart(nodes, wo, updated, shifts, maintenanceWindows) ==
    getNextAvailableTime(
        LatestDependencyEnd(parseDate(wo.data.startDate),
                            getDependencies(nodes, wo.docId), 1, updated),
        shifts, maintenanceWindows)

\* mutant: no conflict is looked for
findAvailableSlot_noPush(start, totalMinutes, slots, shifts, maintenanceWindows) ==
    [start |-> start,
     end |-> parseDate(calculateEndDateWithShiftsAndMaintenance(
                 formatDate(start), totalMinutes, shifts, maintenanceWindows)),
     proposed |-> <<start>>]

\* mutant: one push behind the first overlapping slot, without a new scan
PushForward_once(proposedStart, proposedEnd, totalMinutes, slots, shifts, maintenanceWindows) ==
    LET hits == {i \in 1..Len(slots) :
                    overlaps(proposedStart, proposedEnd, slots[i].start, slots[i].end)}
    IN  IF hits = {}
        THEN [start |-> proposedStart, end |-> proposedEnd, proposed |-> <<proposedStart>>]
        ELSE LET pushed == getNextAvailableTime(slots[Min(hits)].end, shifts,
                                                maintenanceWindows)
             IN  [start |-> pushed,
                  end |-> parseDate(calculateEndDateWithShiftsAndMaintenance(
                              formatDate(pushed), totalMinutes, shifts, maintenanceWindows)),
                  proposed |-> <<proposedStart, pushed>>]

RECURSIVE PushForward(_, _, _, _, _, _)
\* the while loop of findAvailableSlot: each round scans slots from the start
\* and pushes behind the first slot that overlaps. proposed lists the values
\* proposedStart took, the returned start last; the code does not keep them.
PushForward(proposedStart, proposedEnd, totalMinutes, slots, shifts, maintenanceWindows) ==
    LET hits == {i \in 1..Len(slots) :
                    overlaps(proposedStart, proposedEnd, slots[i].start, slots[i].end)}
    IN  IF hits = {}
        THEN [start |-> proposedStart, end |-> proposedEnd, proposed |-> <<proposedStart>>]
        ELSE LET pushed == getNextAvailableTime(slots[Min(hits)].end, shifts,
                                                maintenanceWindows)
                 found == PushForward(pushed,
                              parseDate(calculateEndDateWithShiftsAndMaintenance(
                                  formatDate(pushed), totalMinutes, shifts,
                                  maintenanceWindows)),
                              totalMinutes, slots, shifts, maintenanceWindows)
             IN  [found EXCEPT !.proposed = <<proposedStart>> \o @]

findAvailableSlot(start, totalMinutes, slots, shifts, maintenanceWindows) ==
    PushForward(start,
        parseDate(calculateEndDateWithShiftsAndMaintenance(
            formatDate(start), totalMinutes, shifts, maintenanceWindows)),
        totalMinutes, slots, shifts, maintenanceWindows)

\* mutant: a change is recorded only when the start moved
recordChange_startOnly(nodes, original, updatedOrder, newStart, updated, changeList) ==
    IF original.data.startDate = updatedOrder.data.startDate
    THEN changeList
    ELSE Append(changeList,
             [workOrderId |-> original.docId,
              originalStartDate |-> original.data.startDate,
              originalEndDate |-> original.data.endDate,
              newStartDate |-> updatedOrder.data.startDate,
              newEndDate |-> updatedOrder.data.endDate,
              delayMinutes |-> calculateDelayMinutes(original.data.endDate, updatedOrder.data.endDate),
              reason |-> "Pushed forward due to work center conflict"])

\* mutant: an order with a dependency counts as pushed by it, whenever the
\* dependency ended
recordChange_anyDependency(nodes, original, updatedOrder, newStart, updated, changeList) ==
    IF /\ original.data.startDate = updatedOrder.data.startDate
       /\ original.data.endDate = updatedOrder.data.endDate
    THEN changeList
    ELSE LET dependencies == getDependencies(nodes, original.docId)
             pushedByDependency ==
                 \E j \in 1..Len(dependencies) : dependencies[j] \in DOMAIN updated
             reason ==
                 IF newStart > parseDate(original.data.startDate)
                 THEN IF pushedByDependency
                      THEN "Pushed forward due to dependency completion"
                      ELSE "Pushed forward due to work center conflict"
                 ELSE "Recalculated end date based on duration"
         IN  Append(changeList,
                 [workOrderId |-> original.docId,
                  originalStartDate |-> original.data.startDate,
                  originalEndDate |-> original.data.endDate,
                  newStartDate |-> updatedOrder.data.startDate,
                  newEndDate |-> updatedOrder.data.endDate,
                  delayMinutes |-> calculateDelayMinutes(original.data.endDate,
                                                         updatedOrder.data.endDate),
                  reason |-> reason])

\* yields the change list after the call
recordChange(nodes, original, updatedOrder, newStart, updated, changeList) ==
    IF /\ original.data.startDate = updatedOrder.data.startDate
       /\ original.data.endDate = updatedOrder.data.endDate
    THEN changeList
    ELSE LET dependencies == getDependencies(nodes, original.docId)
             pushedByDependency ==
                 \E j \in 1..Len(dependencies) :
                     /\ dependencies[j] \in DOMAIN updated
                     /\ parseDate(updated[dependencies[j]].data.endDate)
                            > parseDate(original.data.startDate)
             reason ==
                 IF newStart > parseDate(original.data.startDate)
                 THEN IF pushedByDependency
                      THEN "Pushed forward due to dependency completion"
                      ELSE "Pushed forward due to work center conflict"
                 ELSE "Recalculated end date based on duration"
         IN  Append(changeList,
                 [workOrderId |-> original.docId,
                  originalStartDate |-> original.data.startDate,
                  originalEndDate |-> original.data.endDate,
                  newStartDate |-> updatedOrder.data.startDate,
                  newEndDate |-> updatedOrder.data.endDate,
                  delayMinutes |-> calculateDelayMinutes(original.data.endDate,
                                                         updatedOrder.data.endDate),
                  reason |-> reason])

\* wo.data.durationMinutes + (wo.data.setupTimeMinutes ?? 0)
\* mutant: the setup time is left out
TotalMinutes_noSetup(wo) == wo.data.durationMinutes

TotalMinutes(wo) == wo.data.durationMinutes + OrElse(wo.data.setupTimeMinutes, 0)

\* utilization of one work center in hundredths: Math.round(u * 100)
Utilization(wc, updatedWorkOrders, slotMap) ==
    LET slots == GetOr(slotMap, wc.docId, <<>>)
        Worked(slot) ==
            LET hits == {i \in 1..Len(updatedWorkOrders) :
                            updatedWorkOrders[i].docId = slot.workOrderId}
            IN  IF hits # {} /\ ~updatedWorkOrders[Min(hits)].data.isMaintenance
                THEN TotalMinutes(updatedWorkOrders[Min(hits)])
                ELSE 0
        totalWorkingMinutes == SumSeq([i \in 1..Len(slots) |-> Worked(slots[i])])
        shiftsPerWeek == Len(wc.data.shifts)
        hoursPerShift == IF Len(wc.data.shifts) > 0
                         THEN wc.data.shifts[1].endHour - wc.data.shifts[1].startHour
                         ELSE 0
        availableMinutesPerWeek == shiftsPerWeek * hoursPerShift * 60
    IN  IF Len(slots) = 0 \/ availableMinutesPerWeek <= 0
        THEN 0
        ELSE (200 * totalWorkingMinutes + availableMinutesPerWeek)
                 \div (2 * availableMinutesPerWeek)

\* mutant: the delays that are not positive are counted too
calculateMetrics_allDelays(originalWorkOrders, updatedWorkOrders, changeList, centers, slotMap) ==
    LET delays == SelectSeq([i \in 1..Len(changeList) |-> changeList[i].delayMinutes],
                            LAMBDA d : TRUE)
        totalDelayMinutes == SumSeq(delays)
        workOrdersRescheduled == Len(changeList)
    IN  [totalDelayMinutes |-> totalDelayMinutes,
         averageDelayMinutes |->
             IF Len(delays) > 0
             THEN (2 * totalDelayMinutes + Len(delays)) \div (2 * Len(delays))
             ELSE 0,
         maxDelayMinutes |-> IF Len(delays) > 0 THEN Max(SeqToSet(delays)) ELSE 0,
         workOrdersRescheduled |-> workOrdersRescheduled,
         workOrdersUnchanged |->
             Len(SelectSeq(originalWorkOrders, LAMBDA wo : ~wo.data.isMaintenance))
                 - workOrdersRescheduled,
         utilizationByWorkCenter |->
             [id \in {centers[i].docId : i \in 1..Len(centers)} |->
                 Utilization(centers[Max({i \in 1..Len(centers) :
                                                 centers[i].docId = id})],
                             updatedWorkOrders, slotMap)]]

\* mutant: maintenance orders count as unchanged orders
calculateMetrics_allOrders(originalWorkOrders, updatedWorkOrders, changeList, centers, slotMap) ==
    LET delays == SelectSeq([i \in 1..Len(changeList) |-> changeList[i].delayMinutes],
                            LAMBDA d : d > 0)
        totalDelayMinutes == SumSeq(delays)
        workOrdersRescheduled == Len(changeList)
    IN  [totalDelayMinutes |-> totalDelayMinutes,
         averageDelayMinutes |->
             IF Len(delays) > 0
             THEN (2 * totalDelayMinutes + Len(delays)) \div (2 * Len(delays))
             ELSE 0,
         maxDelayMinutes |-> IF Len(delays) > 0 THEN Max(SeqToSet(delays)) ELSE 0,
         workOrdersRescheduled |-> workOrdersRescheduled,
         workOrdersUnchanged |->
             Len(originalWorkOrders)
                 - workOrdersRescheduled,
         utilizationByWorkCenter |->
             [id \in {centers[i].docId : i \in 1..Len(centers)} |->
                 Utilization(centers[Max({i \in 1..Len(centers) :
                                                 centers[i].docId = id})],
                             updatedWorkOrders, slotMap)]]

calculateMetrics(originalWorkOrders, updatedWorkOrders, changeList, centers, slotMap) ==
    LET delays == SelectSeq([i \in 1..Len(changeList) |-> changeList[i].delayMinutes],
                            LAMBDA d : d > 0)
        totalDelayMinutes == SumSeq(delays)
        workOrdersRescheduled == Len(changeList)
    IN  [totalDelayMinutes |-> totalDelayMinutes,
         averageDelayMinutes |->
             IF Len(delays) > 0
             THEN (2 * totalDelayMinutes + Len(delays)) \div (2 * Len(delays))
             ELSE 0,
         maxDelayMinutes |-> IF Len(delays) > 0 THEN Max(SeqToSet(delays)) ELSE 0,
         workOrdersRescheduled |-> workOrdersRescheduled,
         workOrdersUnchanged |->
             Len(SelectSeq(originalWorkOrders, LAMBDA wo : ~wo.data.isMaintenance))
                 - workOrdersRescheduled,
         utilizationByWorkCenter |->
             [id \in {centers[i].docId : i \in 1..Len(centers)} |->
                 Utilization(centers[Max({i \in 1..Len(centers) :
                                                 centers[i].docId = id})],
                             updatedWorkOrders, slotMap)]]

\* ------------------------------------------------------------ fixtures

At(day, h, m) == day * 1440 + h * 60 + m

Shift(d, s, e) == [dayOfWeek |-> d, startHour |-> s, endHour |-> e]

Window(s, e) == [startDate |-> Iso(s, "ms"), endDate |-> Iso(e, "ms")]

\* Mon-Fri 08:00-17:00
WeekdayShifts == [i \in 1..5 |-> Shift(i, 8, 17)]

\* yields both maps and the change list after scheduleWorkOrder(wo, ...), and
\* the order object whose data.startDate and data.endDate it assigned
\* the second half of scheduleWorkOrder, the slot found: update the work order,
\* record the slot, track the change
PlaceInSlot(nodes, wo, slot, slotMap, updated, changeList) ==
    LET updatedOrder == [cloneWorkOrder(wo) EXCEPT !.data.startDate = formatDate(slot.start),
                                                   !.data.endDate = formatDate(slot.end)]
        newUpdated == MapSet(updated, wo.docId, updatedOrder)
    IN  [written |-> updatedOrder,
         updatedMap |-> newUpdated,
         workCenterSlots |-> addSlot(slotMap, wo.data.workCenterId,
                                     [workOrderId |-> wo.docId, start |-> slot.start,
                                      end |-> slot.end]),
         changes |-> recordChange(nodes, wo, updatedOrder, slot.start, newUpdated,
                                  changeList)]

\* the first half of scheduleWorkOrder, the work center looked up: the earliest
\* start from the dependencies, then the slot without conflicts
FindSlotOn(nodes, wo, shifts, maintenanceWindows, slotMap, updated) ==
    findAvailableSlot(findEarliestStart(nodes, wo, updated, shifts, maintenanceWindows),
                      TotalMinutes(wo), GetOr(slotMap, wo.data.workCenterId, <<>>),
                      shifts, maintenanceWindows)

\* scheduleWorkOrder with workCenter = workCenterMap.get(wo.data.workCenterId)
ScheduleOn(nodes, wo, workCenter, slotMap, updated, changeList) ==
    PlaceInSlot(nodes, wo,
                FindSlotOn(nodes, wo, workCenter.shifts, workCenter.maintenanceWindows,
                           slotMap, updated),
                slotMap, updated, changeList)

scheduleWorkOrder(nodes, wo, workCenterList, slotMap, updated, changeList) ==
    ScheduleOn(nodes, wo, getWorkCenter(workCenterList, wo.data.workCenterId), slotMap,
               updated, changeList)

\* mutant: the orders come back in reverse
mapToUpdated_reversed(orders, updated) ==
    [i \in 1..Len(orders) |-> updated[orders[Len(orders) + 1 - i].docId]]

\* workOrders.map(wo => updatedMap.get(wo.docId)!)
mapToUpdated(orders, updated) == [i \in 1..Len(orders) |-> updated[orders[i].docId]]

\* ---------------------------------------------------- constraint-checker

\* new Map filled by set(wo.docId, wo) over the orders: a function on the ids,
\* the last order of an id winning
MapById(items) ==
    [id \in {items[i].docId : i \in 1..Len(items)} |->
        items[Max({i \in 1..Len(items) : items[i].docId = id})]]

\* a ConstraintViolation; the work order number is the id here, and about is
\* what the message names besides
Violation(wo, type, message, about) ==
    [workOrderId |-> wo.docId, type |-> type, message |-> message, about |-> about]

RECURSIVE DependencyViolationsOf(_, _, _)
\* the inner loop of checkDependencies over wo's dependency ids, from position j
DependencyViolationsOf(wo, workOrderMap, j) ==
    IF j > Len(wo.data.dependsOnWorkOrderIds)
    THEN <<>>
    ELSE LET depId == wo.data.dependsOnWorkOrderIds[j]
             later == DependencyViolationsOf(wo, workOrderMap, j + 1)
         IN  IF depId \in DOMAIN workOrderMap
             THEN IF parseDate(wo.data.startDate) < parseDate(workOrderMap[depId].data.endDate)
                  THEN <<Violation(wo, "dependency", "Starts before dependency completes",
                                   depId)>> \o later
                  ELSE later
             ELSE later

RECURSIVE checkDependenciesFrom_all(_, _, _)
\* mutant: maintenance orders are checked like the others
checkDependenciesFrom_all(orders, workOrderMap, k) ==
    IF k > Len(orders)
    THEN <<>>
    ELSE DependencyViolationsOf(orders[k], workOrderMap, 1)
         \o checkDependenciesFrom_all(orders, workOrderMap, k + 1)

RECURSIVE checkDependenciesFrom(_, _, _)
\* the outer loop of checkDependencies from position k
checkDependenciesFrom(orders, workOrderMap, k) ==
    IF k > Len(orders)
    THEN <<>>
    ELSE (IF orders[k].data.isMaintenance
          THEN <<>>
          ELSE DependencyViolationsOf(orders[k], workOrderMap, 1))
         \o checkDependenciesFrom(orders, workOrderMap, k + 1)

checkDependencies(orders) == checkDependenciesFrom(orders, MapById(orders), 1)

\* the keys of workCenterOrders in insertion order: each work center id where
\* it first appears
GroupKeys(orders) ==
    LET first == SelectSeq([i \in 1..Len(orders) |-> i],
                           LAMBDA i : \A h \in 1..(i - 1) :
                               orders[h].data.workCenterId # orders[i].data.workCenterId)
    IN  [k \in 1..Len(first) |-> orders[first[k]].data.workCenterId]

RECURSIVE ConflictsIn_closed(_, _, _)
\* mutant: intervals that only touch count as overlapping
ConflictsIn_closed(group, i, j) ==
    IF i > Len(group)
    THEN <<>>
    ELSE IF j > Len(group)
    THEN ConflictsIn_closed(group, i + 1, i + 2)
    ELSE (IF /\ parseDate(group[i].data.startDate) <= parseDate(group[j].data.endDate)
             /\ parseDate(group[i].data.endDate) >= parseDate(group[j].data.startDate)
          THEN <<Violation(group[j], "work_center_conflict",
                           "Overlaps on same work center", group[i].docId)>>
          ELSE <<>>)
         \o ConflictsIn_closed(group, i, j + 1)

RECURSIVE ConflictsIn(_, _, _)
\* the double loop of checkWorkCenterConflicts over one group, from (i, j)
ConflictsIn(group, i, j) ==
    IF i > Len(group)
    THEN <<>>
    ELSE IF j > Len(group)
    THEN ConflictsIn(group, i + 1, i + 2)
    ELSE (IF overlaps(parseDate(group[i].data.startDate), parseDate(group[i].data.endDate),
                      parseDate(group[j].data.startDate), parseDate(group[j].data.endDate))
          THEN <<Violation(group[j], "work_center_conflict",
                           "Overlaps on same work center", group[i].docId)>>
          ELSE <<>>)
         \o ConflictsIn(group, i, j + 1)

RECURSIVE checkWorkCenterConflictsFrom(_, _, _)
\* the loop over the groups from position k of their keys
checkWorkCenterConflictsFrom(orders, keys, k) ==
    IF k > Len(keys)
    THEN <<>>
    ELSE ConflictsIn(SelectSeq(orders, LAMBDA wo : wo.data.workCenterId = keys[k]), 1, 2)
         \o checkWorkCenterConflictsFrom(orders, keys, k + 1)

checkWorkCenterConflicts(orders) ==
    checkWorkCenterConflictsFrom(orders, GroupKeys(orders), 1)

\* mutant: an end exactly at the shift end counts as outside
isWithinOrAtShiftEnd_strict(date, shifts) == isWithinShift(date, shifts)

\* within a shift, or exactly at the end of the day's shift
isWithinOrAtShiftEnd(date, shifts) ==
    \/ isWithinShift(date, shifts)
    \/ LET shift == getShiftForDay(weekday(date) % 7, shifts)
       IN  shift # NoShift /\ hour(date) = shift.endHour /\ date % 60 = 0

RECURSIVE checkShiftsFrom(_, _, _)
\* the loop of checkShifts from position k
checkShiftsFrom(orders, workCenterMap, k) ==
    IF k > Len(orders)
    THEN <<>>
    ELSE LET wo == orders[k]
             later == checkShiftsFrom(orders, workCenterMap, k + 1)
         IN  IF wo.data.isMaintenance
             THEN later
             ELSE IF \/ wo.data.workCenterId \notin DOMAIN workCenterMap
                     \/ Len(workCenterMap[wo.data.workCenterId].data.shifts) = 0
             THEN later
             ELSE LET shifts == workCenterMap[wo.data.workCenterId].data.shifts
                  IN  (IF ~isWithinShift(parseDate(wo.data.startDate), shifts)
                       THEN <<Violation(wo, "shift", "Starts outside shift hours", "")>>
                       ELSE <<>>)
                      \o (IF ~isWithinOrAtShiftEnd(parseDate(wo.data.endDate), shifts)
                          THEN <<Violation(wo, "shift", "Ends outside shift hours", "")>>
                          ELSE <<>>)
                      \o later

checkShifts(orders, centers) == checkShiftsFrom(orders, MapById(centers), 1)

RECURSIVE WindowViolationsOf_closed(_, _, _)
\* mutant: an interval that only touches a window counts as overlapping it
WindowViolationsOf_closed(wo, windows, j) ==
    IF j > Len(windows)
    THEN <<>>
    ELSE (IF /\ parseDate(wo.data.startDate) <= parseDate(windows[j].endDate)
             /\ parseDate(wo.data.endDate) >= parseDate(windows[j].startDate)
          THEN <<Violation(wo, "maintenance", "Overlaps with maintenance window",
                           windows[j])>>
          ELSE <<>>)
         \o WindowViolationsOf_closed(wo, windows, j + 1)

RECURSIVE WindowViolationsOf(_, _, _)
\* the inner loop of checkMaintenanceWindows over the windows, from position j
WindowViolationsOf(wo, windows, j) ==
    IF j > Len(windows)
    THEN <<>>
    ELSE (IF overlaps(parseDate(wo.data.startDate), parseDate(wo.data.endDate),
                      parseDate(windows[j].startDate), parseDate(windows[j].endDate))
          THEN <<Violation(wo, "maintenance", "Overlaps with maintenance window",
                           windows[j])>>
          ELSE <<>>)
         \o WindowViolationsOf(wo, windows, j + 1)

RECURSIVE checkMaintenanceWindowsFrom(_, _, _)
\* the loop of checkMaintenanceWindows from position k
checkMaintenanceWindowsFrom(orders, workCenterMap, k) ==
    IF k > Len(orders)
    THEN <<>>
    ELSE LET wo == orders[k]
             later == checkMaintenanceWindowsFrom(orders, workCenterMap, k + 1)
         IN  IF wo.data.isMaintenance
             THEN later
             ELSE IF \/ wo.data.workCenterId \notin DOMAIN workCenterMap
                     \/ Len(workCenterMap[wo.data.workCenterId].data.maintenanceWindows) = 0
             THEN later
             ELSE WindowViolationsOf(
                      wo, workCenterMap[wo.data.workCenterId].data.maintenanceWindows, 1)
                  \o later

checkMaintenanceWindows(orders, centers) ==
    checkMaintenanceWindowsFrom(orders, MapById(centers), 1)

\* mutant: the maintenance check is left out
validate_noMaintenance(orders, centers) ==
    LET violations == checkDependencies(orders) \o checkWorkCenterConflicts(orders)
                      \o checkShifts(orders, centers)
    IN  [valid |-> Len(violations) = 0, violations |-> violations]

\* ConstraintChecker.validate
validate(orders, centers) ==
    LET violations == checkDependencies(orders) \o checkWorkCenterConflicts(orders)
                      \o checkShifts(orders, centers)
                      \o checkMaintenanceWindows(orders, centers)
    IN  [valid |-> Len(violations) = 0, violations |-> violations]

RECURSIVE scheduleWorkOrdersFrom(_, _, _, _, _, _, _)
\* the loop of step 4 from position k of sortedOrders on
scheduleWorkOrdersFrom(nodes, sorted, k, centers, slotMap, updated, changeList) ==
    IF k > Len(sorted)
    THEN [updatedMap |-> updated, workCenterSlots |-> slotMap, changes |-> changeList]
    ELSE LET placed == scheduleWorkOrder(nodes, sorted[k], centers, slotMap, updated,
                                         changeList)
         IN  scheduleWorkOrdersFrom(nodes, sorted, k + 1, centers, placed.workCenterSlots,
                                    placed.updatedMap, placed.changes)

\* what reflow(input) returns on a ReflowService whose graph holds nodes
reflow(nodes, orders, centers) ==
    LET cycleError == detectCycles(nodes, orders)
        built == build(nodes, orders)
        maintained == scheduleMaintenanceOrders(orders, <<>>, <<>>)
        placed == scheduleWorkOrdersFrom(built, sortByPriority(orders), 1, centers,
                                         maintained.workCenterSlots,
                                         maintained.updatedMap, <<>>)
        updatedWorkOrders == mapToUpdated(orders, placed.updatedMap)
    IN  IF cycleError.returned
        THEN cycleError
        ELSE [returned |-> TRUE,
              updatedWorkOrders |-> updatedWorkOrders,
              changes |-> placed.changes,
              explanation |-> buildExplanation(placed.changes),
              metrics |-> calculateMetrics(orders, updatedWorkOrders, placed.changes,
                                           centers, placed.workCenterSlots)]

\* ----------------------------------------------------------- reflow inputs

IdOf == <<"wo-1", "wo-2", "wo-3", "wo-4">>

Friday1500 == At(4, 15, 0)
Friday1530 == At(4, 15, 30)
Friday1600 == At(4, 16, 0)
Saturday0900 == At(5, 9, 0)
Monday0700 == At(7, 7, 0)
Monday0800 == At(7, 8, 0)

\* wc-1 works Mon-Fri 08:00-17:00 and is down on Monday 08:00-09:30
WorkCenter1 ==
    [docId |-> "wc-1",
     data |-> [shifts |-> WeekdayShifts,
               maintenanceWindows |-> <<Window(At(7, 8, 0), At(7, 9, 30))>>]]

\* wc-3 has neither shifts nor maintenance windows
WorkCenter3 == [docId |-> "wc-3", data |-> [shifts |-> <<>>, maintenanceWindows |-> <<>>]]

\* the work centers of every input; "wc-2" names none of them
PlantChoices == {<<WorkCenter1, WorkCenter3>>}

\* the end date an input order carries: the calendar end of its working time
\* from its start ("exact"), start + working time ("naive"), or a day more
EndDateOf(kind, wc, start, total) ==
    LET workCenter == getWorkCenter(<<WorkCenter1>>, wc)
    IN  CASE kind = "exact" ->
                 IF total <= 0
                 THEN Iso(start, "ms")
                 ELSE calculateEndDateWithShiftsAndMaintenance(
                          Iso(start, "ms"), total, workCenter.shifts,
                          workCenter.maintenanceWindows)
          [] kind = "naive" -> Iso(start + total, "ms")
          [] OTHER -> Iso(start + total + 1440, "ms")

\* the dependency lists offered to order i: none, the order before it, the order
\* after it (cyclically), itself, both neighbours, an id naming no order before
\* the order before it, an id naming no order
DepsOf(kind, i) ==
    LET prev == IdOf[IF i = 1 THEN NumOrders ELSE i - 1]
        succ == IdOf[IF i = NumOrders THEN 1 ELSE i + 1]
    IN  CASE kind = "none" -> <<>>
          [] kind = "prev" -> <<prev>>
          [] kind = "next" -> <<succ>>
          [] kind = "self" -> <<IdOf[i]>>
          [] kind = "both" -> <<prev, succ>>
          [] kind = "mixed" -> <<"wo-x", prev>>
          [] OTHER -> <<"wo-x">>

\* order i of an input, from a choice c of its fields
OrderOf(i, c) ==
    [docId |-> IdOf[i],
     dataRef |-> i,
     data |-> [workCenterId |-> c.wc,
               startDate |-> Iso(c.start, "ms"),
               endDate |-> EndDateOf(c.endKind, c.wc, c.start,
                                     c.dur + OrElse(c.setup, 0)),
               durationMinutes |-> c.dur,
               setupTimeMinutes |-> c.setup,
               priority |-> c.prio,
               isMaintenance |-> c.maint,
               dependsOnWorkOrderIds |-> DepsOf(c.deps, i)]]

\* a family of inputs: the set each field of every order is drawn from
Family(WC, START, DUR, SETUP, PRIO, MAINT, DEPS, ENDKIND) ==
    [wc : WC, start : START, dur : DUR, setup : SETUP, prio : PRIO, maint : MAINT,
     deps : DEPS, endKind : ENDKIND]

\* placement: work centers, starts, durations and immovable orders
PlacementInputs ==
    Family({"wc-1", "wc-2"}, {Friday1500, Friday1600}, {0, 60, 120}, {None}, {None},
           BOOLEAN, {"none"}, {"exact"})

\* dependencies against priorities, within and across work centers
DependencyInputs ==
    Family({"wc-1", "wc-2"}, {Friday1500, Friday1600}, {60}, {None},
           {Some(1), Some(5)}, {FALSE}, {"none", "prev", "next"}, {"exact"})

\* priorities against starts on either work center
PriorityInputs ==
    Family({"wc-1", "wc-2"}, {Friday1500, Friday1600}, {60}, {None},
           {None, Some(1), Some(5)}, {FALSE}, {"none"}, {"exact"})

\* stale end dates and setup times
StaleInputs ==
    Family({"wc-1"}, {Friday1600}, {60}, {Some(30)}, {None}, BOOLEAN,
           {"none", "prev"}, {"exact", "naive", "late"})

\* odd references: an order naming itself, both neighbours or no order at all
ReferenceInputs ==
    Family({"wc-1", "wc-2"}, {Friday1600}, {60}, {None}, {None}, BOOLEAN,
           {"none", "self", "both", "mixed", "dangling"}, {"exact"})

\* orders on work centers without a calendar: an unknown one and an empty one
FallbackInputs ==
    Family({"wc-2", "wc-3"}, {Friday1600, Saturday0900}, {60}, {Some(30)}, {None}, BOOLEAN,
           {"none", "prev"}, {"exact"})

\* end dates that are too early or a day too late, durations of odd length,
\* starts inside and outside the shifts
DelayInputs ==
    Family({"wc-1"}, {Friday1600, Saturday0900}, {60, 61}, {None}, {None}, {FALSE},
           {"none", "prev"}, {"naive", "late"})

\* orders that need no working time or a negative one, next to orders that
\* need some, with and without a calendar
IdleInputs ==
    Family({"wc-1", "wc-2"}, {Friday1500, Friday1530}, {0, 60}, {None, Some(-30)}, {None},
           {FALSE}, {"none"}, {"exact"})

\* an order that the calendar moves behind the start of the order it depends
\* on, which works on another work center
ReplayInputs ==
    Family({"wc-1", "wc-2"}, {Saturday0900, Monday0800}, {120}, {None}, {None}, {FALSE},
           {"none", "next"}, {"exact"})

Families == {PlacementInputs, DependencyInputs, PriorityInputs, StaleInputs, ReferenceInputs,
             FallbackInputs, DelayInputs, IdleInputs, ReplayInputs}

\* --------------------------------------------------------------- reflow

ClockIdle ==
    /\ cPc = "idle"
    /\ cDate = Iso(0, "ms")
    /\ cMinutes = 0
    /\ cShifts = <<>>
    /\ cWindows = <<>>
    /\ cAligned = 0
    /\ cEnd = Iso(0, "ms")
    /\ cShifted = 0
    /\ cSlots = <<>>
    /\ cSlot = [returned |-> FALSE]

GraphIdle ==
    /\ gPc = "idle"
    /\ gOrders = <<>>
    /\ gNodes = <<>>
    /\ gSort = [sorted |-> <<>>, hasCycle |-> FALSE, cycleNodes |-> <<>>]
    /\ gFrom = ""
    /\ gTo = ""
    /\ gWould = [result |-> FALSE, steps |-> 0, nodes |-> <<>>]

Init ==
    /\ \E family \in Families :
           \E f \in [1..NumOrders -> family] :
               workOrders = [i \in 1..NumOrders |-> OrderOf(i, f[i])]
    /\ inputAtCall = workOrders
    /\ workCenters \in PlantChoices
    /\ pc = "detectCycles"
    /\ graph = <<>>
    /\ sortedOrders = <<>>
    /\ next = 1
    /\ workCenterSlots = <<>>
    /\ updatedMap = <<>>
    /\ changes = <<>>
    /\ result = [returned |-> FALSE]
    /\ call = "first"
    /\ earlier = <<>>
    /\ validation = [returned |-> FALSE]
    /\ ClockIdle
    /\ GraphIdle

\* Step 1: build the graph; a cycle returns at once
DetectCycles ==
    /\ pc = "detectCycles"
    /\ graph' = build(graph, workOrders)
    /\ LET cycleError == detectCycles(graph, workOrders)
       IN  IF cycleError.returned
           THEN result' = cycleError /\ pc' = "done"
           ELSE result' = result /\ pc' = "sortByPriority"
    /\ UNCHANGED <<workOrders, inputAtCall, workCenters, sortedOrders, next, workCenterSlots,
                   updatedMap, changes, call, earlier, validation, clockVars, graphVars>>

\* Step 2
SortByPriority ==
    /\ pc = "sortByPriority"
    /\ sortedOrders' = sortByPriority(workOrders)
    /\ pc' = "scheduleMaintenanceOrders"
    /\ UNCHANGED <<workOrders, inputAtCall, workCenters, graph, next, workCenterSlots, updatedMap,
                   changes, result, call, earlier, validation, clockVars, graphVars>>

\* Step 3
ScheduleMaintenanceOrders ==
    /\ pc = "scheduleMaintenanceOrders"
    /\ LET placed == scheduleMaintenanceOrders(workOrders, <<>>, <<>>)
       IN  /\ workCenterSlots' = placed.workCenterSlots
           /\ updatedMap' = placed.updatedMap
    /\ changes' = <<>>
    /\ next' = 1
    /\ pc' = "scheduleWorkOrder"
    /\ UNCHANGED <<workOrders, inputAtCall, workCenters, graph, sortedOrders, result, call, earlier, validation, clockVars, graphVars>>

\* Step 4, one round of the loop over sortedOrders
ScheduleWorkOrder ==
    /\ pc = "scheduleWorkOrder"
    /\ next <= Len(sortedOrders)
    /\ \E placed \in {scheduleWorkOrder(graph, sortedOrders[next], workCenters,
                                        workCenterSlots, updatedMap, changes)} :
           /\ workCenterSlots' = placed.workCenterSlots
           /\ updatedMap' = placed.updatedMap
           /\ changes' = placed.changes
           /\ workOrders' = WriteThrough(workOrders, placed.written)
    /\ next' = next + 1
    /\ UNCHANGED <<inputAtCall, workCenters, pc, graph, sortedOrders, result, call, earlier, validation, clockVars, graphVars>>

\* the loop is over: build the result and return
BuildResult ==
    /\ pc = "scheduleWorkOrder"
    /\ next > Len(sortedOrders)
    /\ LET updatedWorkOrders == mapToUpdated(workOrders, updatedMap)
       IN  result' = [returned |-> TRUE,
                      updatedWorkOrders |-> updatedWorkOrders,
                      changes |-> changes,
                      explanation |-> buildExplanation(changes),
                      metrics |-> calculateMetrics(workOrders, updatedWorkOrders, changes,
                                                   workCenters, workCenterSlots)]
    /\ pc' = "done"
    /\ UNCHANGED <<workOrders, inputAtCall, workCenters, graph, sortedOrders, next, workCenterSlots,
                   updatedMap, changes, call, earlier, validation, clockVars, graphVars>>

Next ==
    \/ DetectCycles
    \/ SortByPriority
    \/ ScheduleMaintenanceOrders
    \/ ScheduleWorkOrder
    \/ BuildResult

Spec == Init /\ [][Next]_vars

\* ------------------------------------- two calls on one ReflowService

\* the id after id in IdOf
NextId(id) == IF \E k \in 1..(Len(IdOf) - 1) : IdOf[k] = id
              THEN IdOf[(CHOOSE k \in 1..(Len(IdOf) - 1) : IdOf[k] = id) + 1]
              ELSE id

\* the same orders under the next ids
Renamed(orders) ==
    [i \in 1..Len(orders) |->
        [orders[i] EXCEPT
            !.docId = NextId(@),
            !.data.dependsOnWorkOrderIds = [j \in 1..Len(@) |-> NextId(@[j])]]]

\* the inputs of either call: one work center, chains and self-references,
\* under the ids wo-1, wo-2, ... or wo-2, wo-3, ...
CallFamily ==
    Family({"wc-1"}, {Friday1600}, {60}, {None}, {None}, {FALSE},
           {"none", "prev", "self"}, {"exact"})

CallInputs ==
    LET plain == {[i \in 1..NumOrders |-> OrderOf(i, f[i])] :
                      f \in [1..NumOrders -> CallFamily]}
    IN  plain \cup {Renamed(orders) : orders \in plain}

InitCalls ==
    /\ workOrders \in CallInputs
    /\ inputAtCall = workOrders
    /\ workCenters \in PlantChoices
    /\ pc = "detectCycles"
    /\ graph = <<>>
    /\ sortedOrders = <<>>
    /\ next = 1
    /\ workCenterSlots = <<>>
    /\ updatedMap = <<>>
    /\ changes = <<>>
    /\ result = [returned |-> FALSE]
    /\ call = "first"
    /\ earlier = <<>>
    /\ validation = [returned |-> FALSE]
    /\ ClockIdle
    /\ GraphIdle

\* the first call has returned; reflow is called again on the same
\* ReflowService, whose graph field is as that call left it
NewCall ==
    /\ pc = "done"
    /\ call = "first"
    /\ call' = "second"
    /\ earlier' = Append(earlier, inputAtCall)
    /\ workOrders' \in CallInputs
    /\ inputAtCall' = workOrders'
    /\ pc' = "detectCycles"
    /\ sortedOrders' = <<>>
    /\ next' = 1
    /\ workCenterSlots' = <<>>
    /\ updatedMap' = <<>>
    /\ changes' = <<>>
    /\ result' = [returned |-> FALSE]
    /\ UNCHANGED <<workCenters, graph, validation, clockVars, graphVars>>

NextCalls ==
    \/ Next
    \/ NewCall

SpecCalls == InitCalls /\ [][NextCalls]_vars

\* ------------------------------------------------------ calendar harness

\* uneven week, listed out of weekday order: Sat 10-12, Mon 6-14, Wed 0-23
UnevenShifts == <<Shift(6, 10, 12), Shift(1, 6, 14), Shift(3, 0, 23)>>

ShiftChoices == {<<>>, WeekdayShifts, UnevenShifts}

WindowChoices ==
    { <<>>,
      <<Window(At(1, 10, 0), At(1, 14, 0))>>,
      <<Window(At(4, 16, 0), At(7, 9, 0)), Window(At(7, 8, 30), At(7, 9, 30))>>,
      <<Window(At(0, 9, 30), At(0, 9, 30)), Window(At(0, 13, 15), At(0, 16, 45)),
        Window(At(0, 16, 45), At(1, 8, 20))>> }

ClockDates ==
    {At(d, h, m) : d \in {0, 1, 4, 5}, h \in {7, 9, 13, 16, 18}, m \in {0, 30}}

ClockMinutes == {k * 90 : k \in 0..MaxDurationSteps}

ReflowIdle ==
    /\ workOrders = <<>>
    /\ inputAtCall = <<>>
    /\ workCenters = <<>>
    /\ pc = "idle"
    /\ graph = <<>>
    /\ sortedOrders = <<>>
    /\ next = 1
    /\ workCenterSlots = <<>>
    /\ updatedMap = <<>>
    /\ changes = <<>>
    /\ result = [returned |-> FALSE]
    /\ call = "idle"
    /\ earlier = <<>>
    /\ validation = [returned |-> FALSE]

ClockInit ==
    /\ ReflowIdle
    /\ GraphIdle
    /\ cPc = "input"
    /\ cDate \in {Iso(t, f) : t \in ClockDates, f \in {"ms", "short"}}
    /\ cMinutes \in ClockMinutes
    /\ cShifts \in ShiftChoices
    /\ cWindows \in WindowChoices
    /\ cAligned = 0
    /\ cEnd = Iso(0, "ms")
    /\ cShifted = 0
    /\ cSlots = <<>>
    /\ cSlot = [returned |-> FALSE]

CallGetNextAvailableTime ==
    /\ cPc = "input"
    /\ cAligned' = getNextAvailableTime(parseDate(cDate), cShifts, cWindows)
    /\ cPc' = "aligned"
    /\ UNCHANGED <<cDate, cMinutes, cShifts, cWindows, cEnd, cShifted, cSlots, cSlot,
                   reflowVars, graphVars>>

CallCalculateEndDate ==
    /\ cPc = "aligned"
    /\ cEnd' = calculateEndDateWithShiftsAndMaintenance(cDate, cMinutes, cShifts, cWindows)
    /\ cPc' = "done"
    /\ UNCHANGED <<cDate, cMinutes, cShifts, cWindows, cAligned, cShifted, cSlots, cSlot,
                   reflowVars, graphVars>>

ClockNext == CallGetNextAvailableTime \/ CallCalculateEndDate

SpecClock == ClockInit /\ [][ClockNext]_vars

\* -------------------------------------------------------- bounds harness

\* a shift list none of whose shifts falls on a weekday: dayOfWeek 7 is no
\* value of luxonToSpecDayOfWeek
NoUsableShift == <<Shift(7, 8, 17)>>

\* as many maintenance windows, each starting where the one before ends, as
\* getNextAvailableTime has rounds
WindowChain == [k \in 1..maxIterations |-> Window(k * 60, (k + 1) * 60)]

\* calendars with no shifts and with overlapping windows, next to ordinary ones
BoundsCalendars ==
    {[shifts |-> <<>>, windows |-> <<>>],
     [shifts |-> WeekdayShifts, windows |-> <<>>],
     [shifts |-> WeekdayShifts,
      windows |-> <<Window(At(4, 16, 0), At(7, 9, 0)), Window(At(7, 8, 30), At(7, 9, 30))>>],
     [shifts |-> <<>>,
      windows |-> <<Window(At(4, 16, 0), At(7, 9, 0)), Window(At(7, 8, 30), At(7, 9, 30))>>]}

BoundsDates == {At(d, h, 0) : d \in {0, 4, 5}, h \in {7, 9, 16, 18}}

\* the calendar with the window chain is entered in its first and in its
\* second window only, the calendars without a usable shift on Monday morning
BoundsInputs ==
    {[date |-> t, minutes |-> m, shifts |-> c.shifts, windows |-> c.windows] :
        t \in BoundsDates, m \in {0, 90}, c \in BoundsCalendars}
    \cup {[date |-> t, minutes |-> 90, shifts |-> <<>>, windows |-> WindowChain] :
             t \in {60, 120}}
    \cup {[date |-> At(0, 9, 0), minutes |-> m, shifts |-> NoUsableShift, windows |-> w] :
             m \in {0, 90}, w \in {<<>>, <<Window(At(0, 9, 0), At(0, 10, 0))>>}}

BoundsInit ==
    /\ ReflowIdle
    /\ GraphIdle
    /\ cPc = "shift"
    /\ \E input \in BoundsInputs :
           /\ cDate = Iso(input.date, "ms")
           /\ cMinutes = input.minutes
           /\ cShifts = input.shifts
           /\ cWindows = input.windows
    /\ cAligned = 0
    /\ cEnd = Iso(0, "ms")
    /\ cShifted = 0
    /\ cSlots = <<>>
    /\ cSlot = [returned |-> FALSE]

\* getNextShiftStart is exported and takes any shift list, the empty one too
CallGetNextShiftStart ==
    /\ cPc = "shift"
    /\ cShifted' = getNextShiftStart(parseDate(cDate), cShifts)
    /\ cPc' = "input"
    /\ UNCHANGED <<cDate, cMinutes, cShifts, cWindows, cAligned, cEnd, cSlots, cSlot,
                   reflowVars, graphVars>>

BoundsNext == CallGetNextShiftStart \/ CallGetNextAvailableTime \/ CallCalculateEndDate

SpecBounds == BoundsInit /\ [][BoundsNext]_vars

\* ---------------------------------------------------------- slot harness

\* the longest occupied list given to findAvailableSlot
MaxSlots == 3

Slot(id, start, end) == [workOrderId |-> id, start |-> start, end |-> end]

\* occupied intervals: two that follow each other, an empty one, one over the
\* weekend and one behind the maintenance window
SlotChoices ==
    {Slot("wo-a", At(4, 15, 0), At(4, 16, 0)), Slot("wo-b", At(4, 16, 0), At(4, 17, 0)),
     Slot("wo-c", At(4, 16, 30), At(4, 16, 30)), Slot("wo-d", At(4, 15, 30), At(7, 10, 0)),
     Slot("wo-e", At(7, 9, 30), At(7, 10, 30))}

SlotLists == UNION {[1..n -> SlotChoices] : n \in 0..MaxSlots}

SlotInit ==
    /\ ReflowIdle
    /\ GraphIdle
    /\ cPc = "slots"
    /\ cDate \in {Iso(Friday1500, "ms"), Iso(Friday1600, "ms")}
    /\ cMinutes \in {0, 60, 120}
    /\ cShifts \in {<<>>, WeekdayShifts}
    /\ cWindows \in {<<>>, <<Window(At(7, 8, 0), At(7, 9, 30))>>}
    /\ cSlots \in SlotLists
    /\ cAligned = 0
    /\ cEnd = Iso(0, "ms")
    /\ cShifted = 0
    /\ cSlot = [returned |-> FALSE]

\* scheduleWorkOrder's two calls: the earliest start of an order without
\* dependencies, then the slot search from it
CallFindAvailableSlot ==
    /\ cPc = "slots"
    /\ cAligned' = getNextAvailableTime(parseDate(cDate), cShifts, cWindows)
    /\ \E slot \in {findAvailableSlot(cAligned', cMinutes, cSlots, cShifts, cWindows)} :
           cSlot' = [returned |-> TRUE, start |-> slot.start, end |-> slot.end,
                     proposed |-> slot.proposed]
    /\ cPc' = "placed"
    /\ UNCHANGED <<cDate, cMinutes, cShifts, cWindows, cEnd, cShifted, cSlots,
                   reflowVars, graphVars>>

SpecSlot == SlotInit /\ [][CallFindAvailableSlot]_vars

\* ------------------------------------------- validate on a schedule


\* schedules for the checker: starts inside and outside the shifts and the
\* maintenance window of wc-1 and one hour before that window, ends that
\* ignore the calendar
AuditInputs ==
    Family({"wc-1", "wc-2"}, {Friday1600, Saturday0900, Monday0700, Monday0800}, {60},
           {None}, {None},
           BOOLEAN, {"none", "prev"}, {"naive"})

AuditFamilies == Families \cup {AuditInputs}

InitValidate ==
    /\ \E family \in AuditFamilies :
           \E f \in [1..NumOrders -> family] :
               workOrders = [i \in 1..NumOrders |-> OrderOf(i, f[i])]
    /\ inputAtCall = workOrders
    /\ workCenters \in PlantChoices
    /\ pc = "validate"
    /\ graph = <<>>
    /\ sortedOrders = <<>>
    /\ next = 1
    /\ workCenterSlots = <<>>
    /\ updatedMap = <<>>
    /\ changes = <<>>
    /\ result = [returned |-> FALSE]
    /\ call = "first"
    /\ earlier = <<>>
    /\ validation = [returned |-> FALSE]
    /\ ClockIdle
    /\ GraphIdle

\* validate(input) runs and returns; it assigns to nothing the caller holds
Validate ==
    /\ pc = "validate"
    /\ LET returned == validate(workOrders, workCenters)
       IN  validation' = [returned |-> TRUE, valid |-> returned.valid,
                          violations |-> returned.violations]
    /\ pc' = "validated"
    /\ UNCHANGED <<workOrders, inputAtCall, workCenters, graph, sortedOrders, next,
                   workCenterSlots, updatedMap, changes, result, call, earlier,
                   clockVars, graphVars>>

SpecValidate == InitValidate /\ [][Validate]_vars

\* ------------------------------------------------------- graph harness

\* the ids of the nodes, in order, then an id naming no node
GraphIds == [i \in 1..(NumNodes + 1) |-> IF i <= NumNodes THEN IdOf[i] ELSE "wo-x"]

\* the dependency lists offered to node i: at most two ids for the first two
\* nodes and one for the others; the first node may name the unknown id
GraphDeps(i) ==
    LET offered == {GraphIds[k] : k \in 1..(IF i = 1 THEN NumNodes + 1 ELSE NumNodes)}
    IN  {SelectSeq(GraphIds, LAMBDA id : id \in S) :
            S \in {T \in SUBSET offered : Cardinality(T) <= (IF i <= 2 THEN 2 ELSE 1)}}

\* a work order as build reads it: its id and its dependency list
GraphOrder(i, deps) ==
    [docId |-> IdOf[i], dataRef |-> i, data |-> [dependsOnWorkOrderIds |-> deps]]

GraphInit ==
    /\ gPc = "new"
    /\ gOrders = <<>>
    /\ gNodes = <<>>
    /\ gSort = [sorted |-> <<>>, hasCycle |-> FALSE, cycleNodes |-> <<>>]
    /\ gFrom = ""
    /\ gTo = ""
    /\ gWould = [result |-> FALSE, steps |-> 0, nodes |-> <<>>]
    /\ ReflowIdle
    /\ ClockIdle

CallBuild ==
    /\ gPc = "new"
    /\ \E deps \in [1..NumNodes -> UNION {GraphDeps(i) : i \in 1..NumNodes}] :
           /\ \A i \in 1..NumNodes : deps[i] \in GraphDeps(i)
           /\ gOrders' = [i \in 1..NumNodes |-> GraphOrder(i, deps[i])]
    /\ gNodes' = build(gNodes, gOrders')
    /\ gPc' = "built"
    /\ UNCHANGED <<gSort, gFrom, gTo, gWould, reflowVars, clockVars>>

CallTopologicalSort ==
    /\ gPc = "built"
    /\ gSort' = topologicalSort(gNodes)
    /\ gPc' = "sorted"
    /\ UNCHANGED <<gOrders, gNodes, gFrom, gTo, gWould, reflowVars, clockVars>>

CallWouldCreateCycle ==
    /\ gPc = "built"
    /\ \E fromId, toId \in SeqToSet(GraphIds) :
           /\ gFrom' = fromId
           /\ gTo' = toId
           /\ gWould' = wouldCreateCycle(gNodes, fromId, toId)
    /\ gNodes' = gWould'.nodes
    /\ gPc' = "asked"
    /\ UNCHANGED <<gOrders, gSort, reflowVars, clockVars>>

GraphNext ==
    \/ CallBuild
    \/ CallTopologicalSort
    \/ CallWouldCreateCycle

SpecGraph == GraphInit /\ [][GraphNext]_vars

\* ------------------------------------------- calendar: what "available" means

\* minute [m, m+1) lies in a shift of its weekday, read off the shift table
\* directly (independently of isWithinShift)
InShiftMinute(m, shifts) ==
    \E i \in 1..Len(shifts) :
        /\ shifts[i].dayOfWeek = ((m \div 1440) + 1) % 7
        /\ shifts[i].startHour * 60 <= m % 1440
        /\ m % 1440 < shifts[i].endHour * 60

InWindowMinute(m, windows) ==
    \E i \in 1..Len(windows) : windows[i].startDate.t <= m /\ m < windows[i].endDate.t

\* an instant at which work may proceed
Available(m, shifts, windows) ==
    /\ Len(shifts) > 0 => InShiftMinute(m, shifts)
    /\ ~InWindowMinute(m, windows)

\* availability is constant between consecutive breakpoints: hour boundaries and
\* window ends
NextBreak(a, b, windows) ==
    Min({b, ((a \div 60) + 1) * 60}
        \cup {windows[i].startDate.t : i \in {j \in 1..Len(windows) : windows[j].startDate.t > a}}
        \cup {windows[i].endDate.t : i \in {j \in 1..Len(windows) : windows[j].endDate.t > a}})

RECURSIVE AvailableMinutesIn(_, _, _, _)
\* the number of available minutes in [a, b)
AvailableMinutesIn(a, b, shifts, windows) ==
    IF a >= b
    THEN 0
    ELSE LET n == NextBreak(a, b, windows)
         IN  (IF Available(a, shifts, windows) THEN n - a ELSE 0)
             + AvailableMinutesIn(n, b, shifts, windows)

\* ------------------------------------------------ reflow: reading a result

Returned == pc = "done" /\ result.returned

Aborted == Returned /\ result.explanation.kind = "Cycle detected in dependencies: "

Placed == Returned /\ ~Aborted

Orders == 1..Len(workOrders)

In(i) == workOrders[i].data

Out(i) == result.updatedWorkOrders[i].data

OldStart(i) == In(i).startDate.t
OldEnd(i) == In(i).endDate.t
NewStart(i) == Out(i).startDate.t
NewEnd(i) == Out(i).endDate.t

\* order i names order j as a dependency
DependsOn(i, j) ==
    \E k \in 1..Len(In(i).dependsOnWorkOrderIds) :
        In(i).dependsOnWorkOrderIds[k] = workOrders[j].docId

RECURSIVE ReachableIn(_, _)
\* the orders reached from the set S along at most n more dependency edges
ReachableIn(S, n) ==
    IF n = 0
    THEN S
    ELSE ReachableIn(S \cup {j \in Orders : \E i \in S : DependsOn(i, j)}, n - 1)

\* order i lies on a dependency cycle
OnCycle(i) == i \in ReachableIn({j \in Orders : DependsOn(i, j)}, Len(workOrders))

Cyclic == \E i \in Orders : OnCycle(i)

\* the calendar of order i's work center; none when no work center has its id
ShiftsOf(i) ==
    LET hits == {k \in 1..Len(workCenters) : workCenters[k].docId = In(i).workCenterId}
    IN  IF hits = {} THEN <<>> ELSE workCenters[Max(hits)].data.shifts

WindowsOf(i) ==
    LET hits == {k \in 1..Len(workCenters) : workCenters[k].docId = In(i).workCenterId}
    IN  IF hits = {} THEN <<>> ELSE workCenters[Max(hits)].data.maintenanceWindows

\* half-open intervals that overlap, as the data model defines it
Overlap(s1, e1, s2, e2) == s1 < e2 /\ e1 > s2

SameCenter(i, j) == In(i).workCenterId = In(j).workCenterId

\* C1: dependency ordering. For every acyclic input every order in the output
\* starts at or after the output end of each of its dependencies that exists in
\* the input. Stated here for the schedulable orders alone, which the engine
\* is free to move.
C1_DependencyOrdering ==
    Placed =>
        \A i, j \in Orders :
            (~In(i).isMaintenance /\ DependsOn(i, j)) => NewStart(i) >= NewEnd(j)

\* C2 as claimed: no two orders sharing a work center, maintenance orders
\* included, overlap in the output.
C2_ExclusivityAllPairs ==
    Placed =>
        \A i, j \in Orders :
            (i # j /\ SameCenter(i, j)) =>
                ~Overlap(NewStart(i), NewEnd(i), NewStart(j), NewEnd(j))

\* C2: exclusivity. For every acyclic input no two orders that share a work
\* center, at least one of them schedulable, overlap in the output; two
\* maintenance orders keep whatever overlap the input gave them.
C2_Exclusivity ==
    Placed =>
        \A i, j \in Orders :
            (i # j /\ SameCenter(i, j) /\ ~(In(i).isMaintenance /\ In(j).isMaintenance)) =>
                ~Overlap(NewStart(i), NewEnd(i), NewStart(j), NewEnd(j))

\* a schedulable order pushed behind a maintenance order it overlapped
C2_Witness ==
    /\ Placed
    /\ \E i, j \in Orders :
           /\ In(i).isMaintenance /\ ~In(j).isMaintenance /\ SameCenter(i, j)
           /\ Overlap(OldStart(i), OldEnd(i), OldStart(j), OldEnd(j))
           /\ In(j).durationMinutes > 0
           /\ NewStart(j) >= NewEnd(i)
           /\ NewStart(j) > OldStart(j)

\* the input already satisfies every constraint exactly
Consistent ==
    /\ ~Cyclic
    /\ \A i \in Orders :
           ~In(i).isMaintenance =>
               /\ Available(OldStart(i), ShiftsOf(i), WindowsOf(i))
               /\ OldEnd(i) = parseDate(calculateEndDateWithShiftsAndMaintenance(
                                  In(i).startDate, TotalMinutes(workOrders[i]),
                                  ShiftsOf(i), WindowsOf(i)))
               /\ \A j \in Orders : DependsOn(i, j) => OldStart(i) >= OldEnd(j)
    /\ \A i, j \in Orders :
           (i # j /\ SameCenter(i, j)) =>
               ~Overlap(OldStart(i), OldEnd(i), OldStart(j), OldEnd(j))

\* C3: no-op fixed point. An acyclic input whose start and end values already
\* satisfy all constraints exactly comes back with an empty change list and
\* every order's start and end as they were.
C3_NoOpFixedPoint ==
    (pc = "done" /\ Consistent) =>
        /\ Placed
        /\ result.changes = <<>>
        /\ \A i \in Orders :
               Out(i).startDate = In(i).startDate /\ Out(i).endDate = In(i).endDate

\* a consistent input with an order that waits for its dependency
C3_Witness ==
    /\ Placed
    /\ Consistent
    /\ result.changes = <<>>
    /\ \E i, j \in Orders : i # j /\ DependsOn(i, j) /\ OldStart(i) > OldStart(j)

ZeroMetrics ==
    /\ result.metrics.totalDelayMinutes = 0
    /\ result.metrics.averageDelayMinutes = 0
    /\ result.metrics.maxDelayMinutes = 0
    /\ result.metrics.workOrdersRescheduled = 0
    /\ result.metrics.workOrdersUnchanged = 0

\* C4: cycle abort. When the dependency references among known orders contain
\* a cycle, every order comes back with its input start and end, the change
\* list is empty and all delay and count metrics are zero.
C4_CycleAbort ==
    (pc = "done" /\ Cyclic) =>
        /\ Returned
        /\ Len(result.updatedWorkOrders) = Len(workOrders)
        /\ \A i \in Orders :
               Out(i).startDate = In(i).startDate /\ Out(i).endDate = In(i).endDate
        /\ result.changes = <<>>
        /\ ZeroMetrics

\* a cycle beside an order that is neither on it nor downstream of it and that
\* a placement would have moved
C4_Witness ==
    /\ Aborted
    /\ \E i \in Orders :
           /\ In(i).dependsOnWorkOrderIds = <<>>
           /\ ~In(i).isMaintenance
           /\ \E j \in Orders \ {i} : OnCycle(j) /\ SameCenter(i, j)

\* C5: cycle report. When reflow aborts on a cycle the explanation names every
\* order that lies on a dependency cycle.
C5_CycleReport ==
    (pc = "done" /\ Cyclic) =>
        /\ Aborted
        /\ \A i \in Orders :
               OnCycle(i) => workOrders[i].docId \in SeqToSet(result.explanation.cycleNodes)

\* a cycle through two orders
C5_Witness ==
    /\ Aborted
    /\ \E i, j \in Orders : i # j /\ OnCycle(i) /\ OnCycle(j)
    /\ Len(result.explanation.cycleNodes) >= 2

\* C6: maintenance orders are immovable. In every result each maintenance
\* order carries exactly its input start and end, and no change record names a
\* maintenance order.
C6_MaintenanceImmovable ==
    Returned =>
        \A i \in Orders :
            In(i).isMaintenance =>
                /\ Out(i).startDate = In(i).startDate
                /\ Out(i).endDate = In(i).endDate
                /\ \A k \in 1..Len(result.changes) :
                       result.changes[k].workOrderId # workOrders[i].docId

\* a maintenance order that ends outside every shift and before the end of its
\* dependency, in a result that moved another order
C6_Witness ==
    /\ Placed
    /\ result.changes # <<>>
    /\ \E i, j \in Orders :
           /\ In(i).isMaintenance
           /\ DependsOn(i, j)
           /\ NewStart(i) < NewEnd(j)
           /\ ~InShiftMinute(NewEnd(i), ShiftsOf(i))

\* the sort key of sortByPriority
PriorityOf(o) == IF o.data.priority.some THEN o.data.priority.v ELSE 3

\* order a is placed before order b
Before(a, b) ==
    \/ PriorityOf(workOrders[a]) < PriorityOf(workOrders[b])
    \/ /\ PriorityOf(workOrders[a]) = PriorityOf(workOrders[b])
       /\ \/ OldStart(a) < OldStart(b)
          \/ OldStart(a) = OldStart(b) /\ a < b

\* the least available instant at or after order i's original start
AlignedStart(i) == getNextAvailableTime(OldStart(i), ShiftsOf(i), WindowsOf(i))

\* two dependency-free schedulable orders, alone on their work center, whose
\* aligned starts coincide
Competing(a, b) ==
    /\ a # b
    /\ ~In(a).isMaintenance /\ ~In(b).isMaintenance
    /\ In(a).dependsOnWorkOrderIds = <<>> /\ In(b).dependsOnWorkOrderIds = <<>>
    /\ SameCenter(a, b)
    /\ \A c \in Orders \ {a, b} : ~SameCenter(a, c)
    /\ AlignedStart(a) = AlignedStart(b)

\* the placement order: the schedulable orders by ascending priority (absent
\* counts as 3), then ascending original start, then input position
PlacementOrderSorted ==
    pc \in {"scheduleMaintenanceOrders", "scheduleWorkOrder", "done"} /\ ~Aborted =>
        /\ Len(sortedOrders) = Cardinality({i \in Orders : ~In(i).isMaintenance})
        /\ \A i \in Orders : ~In(i).isMaintenance => \E k \in 1..Len(sortedOrders) :
                                                         sortedOrders[k] = workOrders[i]
        /\ \A k, l \in 1..Len(sortedOrders) :
               k < l =>
                   \/ PriorityOf(sortedOrders[k]) < PriorityOf(sortedOrders[l])
                   \/ /\ PriorityOf(sortedOrders[k]) = PriorityOf(sortedOrders[l])
                      /\ sortedOrders[k].data.startDate.t <= sortedOrders[l].data.startDate.t

\* C7 as claimed: of two competing orders the earlier keeps its aligned start
\* and the other starts at or after its end.
C7_PriorityPlacementAnyLength ==
    /\ PlacementOrderSorted
    /\ Placed =>
           \A a, b \in Orders :
               (Competing(a, b) /\ Before(a, b)) =>
                   /\ NewStart(a) = AlignedStart(a)
                   /\ NewStart(b) >= NewEnd(a)

\* C7: priority order of placement. Schedulable orders are placed by ascending
\* priority (absent counts as 3), ties broken by ascending original start; of
\* two competing orders the earlier keeps its aligned start and the other, when
\* it needs working time, starts at or after its end; an order that needs no
\* working time stays at the shared instant.
C7_PriorityPlacement ==
    /\ PlacementOrderSorted
    /\ Placed =>
           \A a, b \in Orders :
               (Competing(a, b) /\ Before(a, b)) =>
                   /\ NewStart(a) = AlignedStart(a)
                   /\ TotalMinutes(workOrders[b]) > 0 => NewStart(b) >= NewEnd(a)
                   /\ TotalMinutes(workOrders[b]) <= 0 => NewStart(b) = AlignedStart(b)

\* the later order of the input has priority 1 and keeps the instant; the
\* earlier one, priority 5, is pushed behind it
C7_Witness ==
    /\ Placed
    /\ \E a, b \in Orders :
           /\ Competing(a, b) /\ Before(a, b) /\ b < a
           /\ In(a).priority = Some(1) /\ In(b).priority = Some(5)
           /\ OldStart(a) = OldStart(b)
           /\ NewStart(a) = OldStart(a)
           /\ NewStart(b) = NewEnd(a)
           /\ NewEnd(a) > NewStart(a)

\* C11: setup time is additive working time. Every schedulable order is placed
\* with durationMinutes + setupTimeMinutes (absent setup = 0) working minutes:
\* its output end is the calendar end of that total from its output start, which
\* is the output start itself for a total of zero or less.
C11_SetupAdditive ==
    Placed =>
        \A i \in Orders :
            ~In(i).isMaintenance =>
                LET total == In(i).durationMinutes
                             + (IF In(i).setupTimeMinutes.some
                                THEN In(i).setupTimeMinutes.v ELSE 0)
                IN  IF total <= 0
                    THEN NewEnd(i) = NewStart(i)
                    ELSE /\ AvailableMinutesIn(NewStart(i), NewEnd(i),
                                               ShiftsOf(i), WindowsOf(i)) = total
                         /\ Available(NewEnd(i) - 1, ShiftsOf(i), WindowsOf(i))

\* an order with 30 minutes of setup whose 90 working minutes span the weekend
C11_Witness ==
    /\ Placed
    /\ \E i \in Orders :
           /\ ~In(i).isMaintenance
           /\ In(i).setupTimeMinutes = Some(30)
           /\ In(i).durationMinutes = 60
           /\ NewEnd(i) > NewStart(i) + 2 * 1440
           /\ AvailableMinutesIn(NewStart(i), NewEnd(i), ShiftsOf(i), WindowsOf(i)) = 90

\* C12: the engine never mutates its input. On the normal path and on the
\* cycle path every input work order keeps the fields it had when reflow was
\* called, and the orders of the result are objects of their own.
C12_InputNotMutated ==
    /\ workOrders = inputAtCall
    /\ Returned =>
           \A i \in 1..Len(result.updatedWorkOrders) :
               result.updatedWorkOrders[i].dataRef = 0

\* a result that moved an order, whose input object still shows the old dates
C12_Witness ==
    /\ Placed
    /\ \E i \in Orders :
           /\ NewStart(i) > OldStart(i)
           /\ NewEnd(i) > OldEnd(i)
           /\ workOrders[i] = inputAtCall[i]

\* C13: output shape. For every input with distinct order ids the result holds
\* as many orders as the input, and its i-th order has the id of the i-th input
\* order, on the normal path and on the cycle path.
C13_OutputShape ==
    (Returned /\ \A i, j \in Orders : i # j => workOrders[i].docId # workOrders[j].docId) =>
        /\ Len(result.updatedWorkOrders) = Len(workOrders)
        /\ \A i \in Orders : result.updatedWorkOrders[i].docId = workOrders[i].docId

\* a placement that took the orders in another order than the input lists them
C13_Witness ==
    /\ Placed
    /\ Len(sortedOrders) >= 2
    /\ sortedOrders[1].docId = workOrders[2].docId
    /\ result.updatedWorkOrders[1].docId = workOrders[1].docId
    /\ result.changes # <<>>

\* C14: no cross-call state. What reflow returns depends on its input alone: a
\* call on a ReflowService that served another input before, a cyclic one
\* included, returns what a fresh ReflowService returns.
C14_NoCrossCallState ==
    pc = "done" => result = reflow(<<>>, inputAtCall, workCenters)

\* a second call that placed its orders after a first call that met a cycle
\* among orders the second input does not have
C14_Witness ==
    /\ call = "second"
    /\ Placed
    /\ result.changes # <<>>
    /\ topologicalSort(build(<<>>, earlier[1])).hasCycle
    /\ \E i \in 1..Len(earlier[1]) :
           \A j \in Orders : earlier[1][i].docId # workOrders[j].docId

\* C15: a cycle is the only abort. An acyclic input always gets the full
\* placement, and an order whose work center id names no work center, or a work
\* center without shifts and maintenance windows, is placed in continuous time:
\* end = start + duration + setup (end = start when that total is negative),
\* not before its original start, behind the dependencies placed before it and
\* clear of the other orders of its work center.
C15_CycleOnlyAbort ==
    (pc = "done" /\ ~Cyclic) =>
        /\ Placed
        /\ \A i \in Orders :
               (~In(i).isMaintenance /\ ShiftsOf(i) = <<>> /\ WindowsOf(i) = <<>>) =>
                   /\ NewEnd(i) = NewStart(i)
                                  + (IF TotalMinutes(workOrders[i]) > 0
                                     THEN TotalMinutes(workOrders[i]) ELSE 0)
                   /\ NewStart(i) >= OldStart(i)
                   /\ \A j \in Orders \ {i} :
                          /\ SameCenter(i, j) =>
                                 ~Overlap(NewStart(i), NewEnd(i), NewStart(j), NewEnd(j))
                          /\ (DependsOn(i, j) /\ (In(j).isMaintenance \/ Before(j, i))) =>
                                 NewStart(i) >= NewEnd(j)

\* an order on the empty work center waits for one on the unknown work center
\* and runs outside all weekday shift hours
C15_Witness ==
    /\ Placed
    /\ \E i, j \in Orders :
           /\ In(i).workCenterId = "wc-3" /\ In(j).workCenterId = "wc-2"
           /\ ~In(i).isMaintenance /\ ~In(j).isMaintenance
           /\ DependsOn(i, j)
           /\ NewStart(i) = NewEnd(j)
           /\ NewStart(i) > OldStart(i)
           /\ NewEnd(i) = NewStart(i) + 90
           /\ ~InShiftMinute(NewStart(i), WeekdayShifts)

\* the input without the dependency ids that name none of its orders
WithoutDangling(orders) ==
    [i \in 1..Len(orders) |->
        [orders[i] EXCEPT !.data.dependsOnWorkOrderIds =
            SelectSeq(@, LAMBDA id : \E j \in 1..Len(orders) : orders[j].docId = id)]]

\* C16: dangling dependency ids are ignored. An id that names no input order
\* causes no cycle report and moves no order: the explanation, the changes, the
\* metrics and every order's start and end are those of the same input with the
\* dangling ids removed.
C16_DanglingIgnored ==
    pc = "done" =>
        LET clean == reflow(<<>>, WithoutDangling(inputAtCall), workCenters)
        IN  /\ result.explanation = clean.explanation
            /\ result.changes = clean.changes
            /\ result.metrics = clean.metrics
            /\ Len(result.updatedWorkOrders) = Len(clean.updatedWorkOrders)
            /\ \A i \in Orders :
                   /\ Out(i).startDate = clean.updatedWorkOrders[i].data.startDate
                   /\ Out(i).endDate = clean.updatedWorkOrders[i].data.endDate

\* an order naming a dangling id and a real dependency is pushed behind the
\* real one only
C16_Witness ==
    /\ Placed
    /\ \E i, j \in Orders :
           /\ i # j
           /\ In(i).dependsOnWorkOrderIds = <<"wo-x", workOrders[j].docId>>
           /\ ~In(i).isMaintenance
           /\ ~SameCenter(i, j)
           /\ NewStart(i) = NewEnd(j)
           /\ NewStart(i) > OldStart(i)
           /\ \E k \in 1..Len(result.changes) :
                  result.changes[k].workOrderId = workOrders[i].docId

\* ------------------------------------------- dependency graph: the claims

GraphNodeIds == {gNodes[i].workOrderId : i \in 1..Len(gNodes)}

\* node a names b as a dependency
GraphEdge(a, b) ==
    \E i \in 1..Len(gNodes) :
        gNodes[i].workOrderId = a /\ b \in SeqToSet(gNodes[i].dependsOn)

RECURSIVE GraphReach(_, _)
\* the ids reached from the set S along at most n more dependency edges
GraphReach(S, n) ==
    IF n = 0
    THEN S
    ELSE GraphReach(S \cup {b \in SeqToSet(GraphIds) : \E a \in S : GraphEdge(a, b)}, n - 1)

\* node a lies on a directed cycle
OnGraphCycle(a) == a \in GraphReach({b \in GraphNodeIds : GraphEdge(a, b)}, NumNodes)

GraphCyclic == \E a \in GraphNodeIds : OnGraphCycle(a)

\* node a lies on a cycle or depends, through any number of edges, on a node
\* that does
Unresolvable(a) == \E c \in GraphReach({a}, NumNodes) : c \in GraphNodeIds /\ OnGraphCycle(c)

PositionIn(seq, id) == CHOOSE k \in 1..Len(seq) : seq[k] = id

\* C17: topological sort of an acyclic graph. topologicalSort returns hasCycle =
\* false and a sorted list that holds every node exactly once, every known
\* dependency of a node before the node.
C17_TopologicalSort ==
    (gPc = "sorted" /\ ~GraphCyclic) =>
        /\ gSort.hasCycle = FALSE
        /\ Len(gSort.sorted) = Len(gNodes)
        /\ SeqToSet(gSort.sorted) = GraphNodeIds
        /\ \A a, b \in GraphNodeIds :
               GraphEdge(a, b) => PositionIn(gSort.sorted, b) < PositionIn(gSort.sorted, a)

\* an acyclic graph whose first node waits for two others and names an unknown
\* id besides
C17_Witness ==
    /\ gPc = "sorted"
    /\ ~GraphCyclic
    /\ gSort.sorted[Len(gSort.sorted)] = IdOf[1]
    /\ \E b \in GraphNodeIds \ {IdOf[1]} :
           /\ GraphEdge(IdOf[1], b)
           /\ \E c \in GraphNodeIds \ {IdOf[1], b} : GraphEdge(b, c)
    /\ \E i \in 1..Len(gNodes) : "wo-x" \in SeqToSet(gNodes[i].dependsOn)

\* C18: cycle detection. topologicalSort returns hasCycle = true iff the edges
\* between known nodes hold a directed cycle, a self-dependency included; then
\* sorted is empty and cycleNodes is exactly the nodes on a cycle together with
\* the nodes that transitively depend on one.
C18_CycleDetection ==
    gPc = "sorted" =>
        /\ gSort.hasCycle = GraphCyclic
        /\ gSort.hasCycle =>
               /\ gSort.sorted = <<>>
               /\ SeqToSet(gSort.cycleNodes) = {a \in GraphNodeIds : Unresolvable(a)}
               /\ Len(gSort.cycleNodes) = Cardinality(SeqToSet(gSort.cycleNodes))

\* a self-dependency, a node downstream of it, and a node that is neither
C18_Witness ==
    /\ gPc = "sorted"
    /\ gSort.hasCycle
    /\ \E a, b, c \in GraphNodeIds :
           /\ GraphEdge(a, a)
           /\ b # a /\ ~OnGraphCycle(b) /\ GraphEdge(b, a)
           /\ c \notin SeqToSet(gSort.cycleNodes)
           /\ SeqToSet(gSort.cycleNodes) = {a, b}

\* the number of dependency ids the nodes hold
GraphEdgeCount == SumSeq([i \in 1..Len(gNodes) |-> Len(gNodes[i].dependsOn)])

\* C19: wouldCreateCycle(from, to) is true iff from is reached from to along
\* zero or more dependency edges; it ends on every graph, cyclic ones included,
\* within one round per dependency id plus one, and leaves the graph as built.
C19_WouldCreateCycle ==
    gPc = "asked" =>
        /\ gWould.result = (gFrom \in GraphReach({gTo}, NumNodes + 1))
        /\ gWould.steps <= 1 + GraphEdgeCount
        /\ gNodes = build(<<>>, gOrders)

\* on a cyclic graph, an id reached over two edges
C19_Witness ==
    /\ gPc = "asked"
    /\ GraphCyclic
    /\ gWould.result
    /\ gFrom # gTo
    /\ ~GraphEdge(gTo, gFrom)
    /\ gWould.steps >= 3

\* ------------------------------------------------------ metrics: the claims

\* the change records with a strictly positive delay
PositiveDelays == {k \in 1..Len(result.changes) : result.changes[k].delayMinutes > 0}

RECURSIVE DelaySum(_)
\* the sum of the delays of the change records in S
DelaySum(S) ==
    IF S = {}
    THEN 0
    ELSE LET k == CHOOSE x \in S : TRUE
         IN  result.changes[k].delayMinutes + DelaySum(S \ {k})

\* the totals over the positive delays, the average left aside
DelayTotals ==
    /\ result.metrics.totalDelayMinutes = DelaySum(PositiveDelays)
    /\ result.metrics.maxDelayMinutes =
           IF PositiveDelays = {}
           THEN 0
           ELSE Max({result.changes[k].delayMinutes : k \in PositiveDelays})
    /\ 0 <= result.metrics.averageDelayMinutes
    /\ result.metrics.averageDelayMinutes <= result.metrics.maxDelayMinutes
    /\ result.metrics.maxDelayMinutes <= result.metrics.totalDelayMinutes

\* C25 as claimed: the average is the mean of the positive delays.
C25_DelayTotalsExactMean ==
    Returned =>
        /\ DelayTotals
        /\ result.metrics.averageDelayMinutes * Cardinality(PositiveDelays) =
               DelaySum(PositiveDelays)

\* C25: delay totals. In every result totalDelayMinutes is the sum of the
\* strictly positive delayMinutes of the change records and maxDelayMinutes the
\* largest of them; averageDelayMinutes is their mean rounded to the nearest
\* whole minute, halves upwards; all three are 0 when no delay is positive.
\* Negative delays stay in the change list and outside the totals, and
\* 0 <= average <= max <= total.
C25_DelayTotals ==
    Returned =>
        LET n == Cardinality(PositiveDelays)
            average == result.metrics.averageDelayMinutes
        IN  /\ DelayTotals
            /\ n = 0 => average = 0
            /\ n > 0 => /\ 2 * n * average <= 2 * DelaySum(PositiveDelays) + n
                        /\ 2 * DelaySum(PositiveDelays) + n < 2 * n * (average + 1)

\* one order finishes earlier than its input said and one later: the totals
\* count the second alone
C25_Witness ==
    /\ Placed
    /\ \E k \in 1..Len(result.changes) : result.changes[k].delayMinutes < 0
    /\ PositiveDelays # {}
    /\ result.metrics.totalDelayMinutes > 0
    /\ result.metrics.averageDelayMinutes = result.metrics.maxDelayMinutes

\* the schedulable orders of the input
Schedulable == {i \in Orders : ~In(i).isMaintenance}

\* C26 as claimed: the two counts in every result, a cycle abort included.
C26_CountsEveryResult ==
    Returned =>
        /\ result.metrics.workOrdersRescheduled = Len(result.changes)
        /\ result.metrics.workOrdersUnchanged =
               Cardinality(Schedulable) - result.metrics.workOrdersRescheduled
        /\ result.metrics.workOrdersUnchanged >= 0

\* C26: rescheduled and unchanged counts. In every result workOrdersRescheduled
\* is the number of change records. When the input is acyclic
\* workOrdersUnchanged is the number of non-maintenance input orders minus
\* workOrdersRescheduled and is not negative; on a cycle abort both counts
\* are 0, whatever the number of orders.
C26_Counts ==
    /\ Returned =>
           /\ result.metrics.workOrdersRescheduled = Len(result.changes)
           /\ result.metrics.workOrdersUnchanged >= 0
    /\ Placed =>
           result.metrics.workOrdersUnchanged =
               Cardinality(Schedulable) - result.metrics.workOrdersRescheduled
    /\ Aborted =>
           /\ result.metrics.workOrdersRescheduled = 0
           /\ result.metrics.workOrdersUnchanged = 0

\* a maintenance order next to a schedulable order that was moved: one
\* rescheduled, none unchanged
C26_Witness ==
    /\ Placed
    /\ \E i \in Orders : In(i).isMaintenance
    /\ Len(result.changes) >= 1
    /\ result.metrics.workOrdersRescheduled = Len(result.changes)
    /\ result.metrics.workOrdersUnchanged = Cardinality(Schedulable) - Len(result.changes)

\* ------------------------------------------- constraint checker: the claims

ViolationTypes == {"dependency", "work_center_conflict", "shift", "maintenance"}

\* C20: validate never throws and never modifies its input; it returns the
\* violations of its four checks, all of them and no others, and valid is true
\* iff that list is empty.
C20_ValidateTotal ==
    pc = "validated" =>
        /\ validation.returned
        /\ workOrders = inputAtCall
        /\ validation.violations =
               checkDependencies(workOrders) \o checkWorkCenterConflicts(workOrders)
               \o checkShifts(workOrders, workCenters)
               \o checkMaintenanceWindows(workOrders, workCenters)
        /\ \A k \in 1..Len(validation.violations) :
               /\ validation.violations[k].type \in ViolationTypes
               /\ \E i \in Orders : workOrders[i].docId = validation.violations[k].workOrderId
        /\ validation.valid = (validation.violations = <<>>)

\* a schedule that breaks all four rules at once
C20_Witness ==
    /\ pc = "validated"
    /\ ~validation.valid
    /\ \A type \in ViolationTypes :
           \E k \in 1..Len(validation.violations) : validation.violations[k].type = type

\* the violations of one type reported against order i
ReportedFor(i, type) ==
    {k \in 1..Len(validation.violations) :
        /\ validation.violations[k].workOrderId = workOrders[i].docId
        /\ validation.violations[k].type = type}

\* order i's work center is one of the input's work centers
KnownCenter(i) == \E k \in 1..Len(workCenters) : workCenters[k].docId = In(i).workCenterId

\* the instant is the end of the shift defined for its weekday
AtShiftEnd(m, shifts) ==
    \E k \in 1..Len(shifts) :
        /\ shifts[k].dayOfWeek = ((m \div 1440) + 1) % 7
        /\ m % 1440 = shifts[k].endHour * 60

\* C21: checker dependency rule. validate reports a 'dependency' violation
\* against order o iff o is not a maintenance order and one of its dependency
\* ids names an order d of the same input with start(o) < end(d), on the values
\* the input carries; there is one violation per such dependency id, so a
\* dangling id and the dependencies of a maintenance order produce none.
C21_CheckerDependencyRule ==
    pc = "validated" =>
        \A i \in Orders :
            /\ ReportedFor(i, "dependency") # {} <=>
                   /\ ~In(i).isMaintenance
                   /\ \E j \in Orders : DependsOn(i, j) /\ OldStart(i) < OldEnd(j)
            /\ {validation.violations[k].about : k \in ReportedFor(i, "dependency")} =
                   IF In(i).isMaintenance
                   THEN {}
                   ELSE {workOrders[j].docId : j \in {h \in Orders :
                            DependsOn(i, h) /\ OldStart(i) < OldEnd(h)}}

\* a maintenance order starting before its dependency ends goes unreported
\* while a schedulable order with a dangling id and an unmet dependency is
\* reported once, for the unmet dependency
C21_Witness ==
    /\ pc = "validated"
    /\ \E i, j \in Orders :
           /\ In(i).isMaintenance /\ DependsOn(i, j) /\ OldStart(i) < OldEnd(j)
           /\ ReportedFor(i, "dependency") = {}
           /\ ~In(j).isMaintenance /\ DependsOn(j, i) /\ OldStart(j) < OldEnd(i)
           /\ \E k \in 1..Len(In(j).dependsOnWorkOrderIds) :
                  \A h \in Orders : In(j).dependsOnWorkOrderIds[k] # workOrders[h].docId
           /\ Cardinality(ReportedFor(j, "dependency")) = 1

\* C22: checker exclusivity rule. validate reports a 'work_center_conflict'
\* violation iff two orders, maintenance orders included, have the same
\* workCenterId and overlap as half-open intervals; the later of the two in the
\* input is reported, once per earlier order it overlaps. Intervals that only
\* touch and orders on different work centers are not reported.
C22_CheckerExclusivityRule ==
    pc = "validated" =>
        \A j \in Orders :
            {validation.violations[k].about : k \in ReportedFor(j, "work_center_conflict")} =
                {workOrders[i].docId : i \in {h \in Orders :
                    /\ h < j
                    /\ SameCenter(h, j)
                    /\ Overlap(OldStart(h), OldEnd(h), OldStart(j), OldEnd(j))}}

\* two maintenance orders overlapping on one work center are reported
C22_Witness ==
    /\ pc = "validated"
    /\ \E i, j \in Orders :
           /\ i < j /\ SameCenter(i, j)
           /\ In(i).isMaintenance /\ In(j).isMaintenance
           /\ OldStart(i) < OldEnd(j) /\ OldEnd(i) > OldStart(j)
           /\ ReportedFor(j, "work_center_conflict") # {}
           /\ ReportedFor(i, "work_center_conflict") = {}

\* C23: checker shift rule. A schedulable order on a known work center with at
\* least one shift is reported for its start iff the start is not inside the
\* shift of its weekday, and for its end iff the end is neither inside the
\* shift of its weekday nor exactly at that shift's end; an order on an unknown
\* work center or on one without shifts, and a maintenance order, is never
\* reported for a shift.
C23_CheckerShiftRule ==
    pc = "validated" =>
        \A i \in Orders :
            LET reported == {validation.violations[k].message : k \in ReportedFor(i, "shift")}
            IN  IF ~In(i).isMaintenance /\ KnownCenter(i) /\ Len(ShiftsOf(i)) > 0
                THEN /\ "Starts outside shift hours" \in reported <=>
                            ~InShiftMinute(OldStart(i), ShiftsOf(i))
                     /\ "Ends outside shift hours" \in reported <=>
                            /\ ~InShiftMinute(OldEnd(i), ShiftsOf(i))
                            /\ ~AtShiftEnd(OldEnd(i), ShiftsOf(i))
                     /\ reported \subseteq {"Starts outside shift hours",
                                            "Ends outside shift hours"}
                ELSE reported = {}

\* an order ending exactly at the shift end passes, next to one reported for
\* both its start and its end
C23_Witness ==
    /\ pc = "validated"
    /\ \E i, j \in Orders :
           /\ ~In(i).isMaintenance /\ KnownCenter(i) /\ Len(ShiftsOf(i)) > 0
           /\ AtShiftEnd(OldEnd(i), ShiftsOf(i))
           /\ ReportedFor(i, "shift") = {}
           /\ ~In(j).isMaintenance /\ SameCenter(i, j)
           /\ Cardinality(ReportedFor(j, "shift")) = 2

\* C24: checker maintenance rule. validate reports a 'maintenance' violation
\* against a schedulable order iff its half-open interval overlaps a
\* maintenance window of its work center, once per window overlapped; a
\* maintenance order is never reported.
C24_CheckerMaintenanceRule ==
    pc = "validated" =>
        \A i \in Orders :
            {validation.violations[k].about : k \in ReportedFor(i, "maintenance")} =
                IF In(i).isMaintenance
                THEN {}
                ELSE {WindowsOf(i)[w] : w \in {v \in 1..Len(WindowsOf(i)) :
                         Overlap(OldStart(i), OldEnd(i),
                                 WindowsOf(i)[v].startDate.t, WindowsOf(i)[v].endDate.t)}}

\* a schedulable order inside the window is reported; a maintenance order
\* over the same hours is not
C24_Witness ==
    /\ pc = "validated"
    /\ \E i, j \in Orders :
           /\ ~In(i).isMaintenance /\ ReportedFor(i, "maintenance") # {}
           /\ In(j).isMaintenance /\ SameCenter(i, j)
           /\ OldStart(j) = OldStart(i) /\ OldEnd(j) = OldEnd(i)
           /\ ReportedFor(j, "maintenance") = {}

\* ---------------------------------------------- placement: further claims

\* the order the loop of step 4 is about to place
Placing == pc = "scheduleWorkOrder" /\ next <= Len(sortedOrders)

\* C27: fallback for an unplaced dependency. When an order is placed before
\* one of its dependencies, the dependency not yet being in the placed map,
\* the earliest start computed for the order is at or after the end the input
\* gives that dependency.
C27_UnplacedDependencyFallback ==
    Placing =>
        LET wo == sortedOrders[next]
            workCenter == getWorkCenter(workCenters, wo.data.workCenterId)
            earliestStart == findEarliestStart(graph, wo, updatedMap, workCenter.shifts,
                                               workCenter.maintenanceWindows)
        IN  \A j \in Orders :
                (/\ \E k \in 1..Len(wo.data.dependsOnWorkOrderIds) :
                        wo.data.dependsOnWorkOrderIds[k] = inputAtCall[j].docId
                 /\ inputAtCall[j].docId \notin DOMAIN updatedMap)
                    => earliestStart >= parseDate(inputAtCall[j].data.endDate)

\* C28: the output respects shifts. For every acyclic input each schedulable
\* order on a work center with at least one shift has its output start inside
\* the shift of its weekday and its output end inside a shift or exactly at the
\* end of one, and the checker's shift check reports nothing on the output.
C28_OutputRespectsShifts ==
    Placed =>
        /\ \A i \in Orders :
               (~In(i).isMaintenance /\ Len(ShiftsOf(i)) > 0) =>
                   /\ InShiftMinute(NewStart(i), ShiftsOf(i))
                   /\ \/ InShiftMinute(NewEnd(i), ShiftsOf(i))
                      \/ AtShiftEnd(NewEnd(i), ShiftsOf(i))
        /\ checkShifts(result.updatedWorkOrders, workCenters) = <<>>

\* an order that filled the last hour of Friday's shift ends exactly at the
\* shift end; one that asked for Saturday is moved into Monday's shift
C28_Witness ==
    /\ Placed
    /\ \E i, j \in Orders :
           /\ ~In(i).isMaintenance /\ Len(ShiftsOf(i)) > 0
           /\ AtShiftEnd(NewEnd(i), ShiftsOf(i))
           /\ ~InShiftMinute(NewEnd(i), ShiftsOf(i))
           /\ ~In(j).isMaintenance /\ Len(ShiftsOf(j)) > 0
           /\ ~InShiftMinute(OldStart(j), ShiftsOf(j))
           /\ InShiftMinute(NewStart(j), ShiftsOf(j))
           /\ InShiftMinute(NewEnd(j), ShiftsOf(j))

\* C29: the output avoids maintenance windows. For every acyclic input no
\* schedulable order of the output has an interval [start, end) overlapping a
\* maintenance window of its work center, and the checker's maintenance check
\* reports nothing on the output.
C29_OutputAvoidsMaintenance ==
    Placed =>
        /\ \A i \in Orders :
               ~In(i).isMaintenance =>
                   \A w \in 1..Len(WindowsOf(i)) :
                       ~Overlap(NewStart(i), NewEnd(i),
                                WindowsOf(i)[w].startDate.t, WindowsOf(i)[w].endDate.t)
        /\ checkMaintenanceWindows(result.updatedWorkOrders, workCenters) = <<>>

\* s is an initial part of t
IsPrefix(s, t) == Len(s) <= Len(t) /\ \A k \in 1..Len(s) : s[k] = t[k]

\* one step keeps every occupied list and may append to it
OccupiedGrows ==
    \A id \in DOMAIN workCenterSlots :
        /\ id \in DOMAIN workCenterSlots'
        /\ IsPrefix(workCenterSlots[id], workCenterSlots'[id])

\* in a result of a full run each order is recorded once, in the list of its
\* work center, with the interval the output gives it; each list holds the
\* maintenance orders in input order and then the others in placement order
FinalIntervalsRecorded ==
    Placed =>
        /\ \A i \in Orders :
               /\ In(i).workCenterId \in DOMAIN workCenterSlots
               /\ LET slots == workCenterSlots[In(i).workCenterId]
                      hits == {k \in 1..Len(slots) :
                                  slots[k].workOrderId = workOrders[i].docId}
                  IN  /\ Cardinality(hits) = 1
                      /\ \A k \in hits : /\ slots[k].start = NewStart(i)
                                          /\ slots[k].end = NewEnd(i)
        /\ \A id \in DOMAIN workCenterSlots :
               LET here(orders) == SelectSeq(orders, LAMBDA wo : wo.data.workCenterId = id)
                   fixed == here(SelectSeq(workOrders, LAMBDA wo : wo.data.isMaintenance))
                   moved == here(sortedOrders)
               IN  [k \in 1..Len(workCenterSlots[id]) |-> workCenterSlots[id][k].workOrderId]
                       = [k \in 1..(Len(fixed) + Len(moved)) |->
                             IF k <= Len(fixed) THEN fixed[k].docId
                             ELSE moved[k - Len(fixed)].docId]

\* C30: push-forward never displaces. No step of a run changes or removes an
\* interval already recorded in an occupied list: every list only grows at its
\* end, maintenance orders first and then the schedulable orders in placement
\* order, and the interval the output gives an order is the interval recorded
\* when it was placed.
C30_PushForwardNeverDisplaces == [][OccupiedGrows /\ FinalIntervalsRecorded']_vars

\* a schedulable order pushed behind a maintenance order recorded before it on
\* the same work center: both are in the list, the maintenance order first
C30_Witness ==
    /\ Placed
    /\ \E i, j \in Orders :
           /\ In(i).isMaintenance /\ ~In(j).isMaintenance /\ SameCenter(i, j)
           /\ In(i).workCenterId \in DOMAIN workCenterSlots
           /\ LET slots == workCenterSlots[In(i).workCenterId]
              IN  /\ Len(slots) = 2
                  /\ slots[1].workOrderId = workOrders[i].docId
                  /\ slots[1].start = OldStart(i) /\ slots[1].end = OldEnd(i)
                  /\ slots[2].workOrderId = workOrders[j].docId
                  /\ slots[2].start > OldStart(j)
                  /\ slots[2].start >= slots[1].end

\* C31: conflict resolution terminates. For every occupied list the push-forward
\* loop of findAvailableSlot ends. Each push moves the candidate start to an
\* instant at or after the end of an interval that overlapped the candidate,
\* strictly later than the candidate before; there is at most one push per
\* occupied interval, and the returned interval overlaps none of them.
C31_ConflictResolutionTerminates ==
    cPc = "placed" =>
        /\ cSlot.returned
        /\ cSlot.proposed[1] = cAligned
        /\ cSlot.proposed[Len(cSlot.proposed)] = cSlot.start
        /\ \A k \in 1..(Len(cSlot.proposed) - 1) :
               /\ cSlot.proposed[k + 1] > cSlot.proposed[k]
               /\ \E h \in 1..Len(cSlots) :
                      /\ cSlot.proposed[k] < cSlots[h].end
                      /\ cSlot.proposed[k + 1] >= cSlots[h].end
        /\ Len(cSlot.proposed) - 1 <= Len(cSlots)
        /\ \A h \in 1..Len(cSlots) :
               ~Overlap(cSlot.start, cSlot.end, cSlots[h].start, cSlots[h].end)

\* three occupied intervals, each of which pushed the candidate once
C31_Witness ==
    /\ cPc = "placed"
    /\ Len(cSlots) = 3
    /\ Len(cSlot.proposed) = 4
    /\ cSlot.end > cSlot.start

\* midnight of the day of an instant
DayStart(m) == (m \div 1440) * 1440

\* some shift of the list falls on a weekday
UsableShifts(shifts) == \E k \in 1..Len(shifts) : shifts[k].dayOfWeek \in 0..6

\* C32: the calendar routines are bounded. Each of them returns on every
\* input, a calendar without a usable shift or with overlapping windows
\* included. getNextShiftStart looks at 14 days at most and returns the
\* instant it was given when none of them has a shift ahead;
\* getNextAvailableTime makes 1000 rounds at most and returns the instant it
\* was given when the last round still ends inside a maintenance window; the
\* end-date loop makes 10000 iterations at most, so that without a usable
\* shift it stops 10000 minutes after the start.
C32_CalendarRoutinesBounded ==
    LET date == parseDate(cDate)
    IN  /\ cPc \in {"input", "aligned", "done"} =>
               /\ cShifted >= date
               /\ cShifted < DayStart(date) + maxDays * 1440
               /\ ~UsableShifts(cShifts) => cShifted = date
               /\ cShifted # date => InShiftMinute(cShifted, cShifts)
        /\ cPc \in {"aligned", "done"} =>
               /\ cAligned >= date
               /\ InWindowMinute(cAligned, cWindows) =>
                      cAligned = date /\ Len(cWindows) >= maxIterations
               /\ (UsableShifts(cShifts) /\ cAligned # date) =>
                      InShiftMinute(cAligned, cShifts)
        /\ cPc = "done" =>
               /\ cEnd.t >= date
               /\ cMinutes <= 0 => cEnd = cDate
               /\ (cMinutes > 0 /\ Len(cShifts) > 0 /\ ~UsableShifts(cShifts)) =>
                      cEnd.t = cAligned + maxIterationsEnd

\* a chain of 1000 windows entered in its first window: the empty shift list
\* gives the date back, and so do the 1000 rounds, which end in the last window
C32_Witness ==
    /\ cPc = "done"
    /\ cShifts = <<>>
    /\ cShifted = parseDate(cDate)
    /\ Len(cWindows) = maxIterations
    /\ InWindowMinute(parseDate(cDate), cWindows)
    /\ cAligned = parseDate(cDate)
    /\ cEnd.t > cAligned

\* ------------------------------------------------ change records: the claims

\* the change records of order i
ChangesFor(i) ==
    {k \in 1..Len(result.changes) : result.changes[k].workOrderId = workOrders[i].docId}

\* C33: change records. A schedulable order has a change record exactly when
\* its output start differs from its original start or its output end from its
\* original end, and never more than one; a maintenance order has none; the
\* record carries the original and the output dates, and its delayMinutes is
\* the output end minus the original end in minutes, negative when the end
\* moved earlier.
C33_ChangeRecords ==
    Placed =>
        /\ \A k \in 1..Len(result.changes) :
               \E i \in Orders : ~In(i).isMaintenance /\ k \in ChangesFor(i)
        /\ \A i \in Orders :
               ~In(i).isMaintenance =>
                   /\ Cardinality(ChangesFor(i)) <= 1
                   /\ ChangesFor(i) # {} <=>
                          (NewStart(i) # OldStart(i) \/ NewEnd(i) # OldEnd(i))
                   /\ \A k \in ChangesFor(i) :
                          /\ result.changes[k].delayMinutes = NewEnd(i) - OldEnd(i)
                          /\ parseDate(result.changes[k].originalStartDate) = OldStart(i)
                          /\ parseDate(result.changes[k].originalEndDate) = OldEnd(i)
                          /\ parseDate(result.changes[k].newStartDate) = NewStart(i)
                          /\ parseDate(result.changes[k].newEndDate) = NewEnd(i)

\* an order that keeps its start and whose end moves a day earlier, recorded
\* with a delay of -1440 minutes, next to an order pushed to the next week
C33_Witness ==
    /\ Placed
    /\ \E i, j \in Orders :
           /\ ~In(i).isMaintenance /\ ~In(j).isMaintenance
           /\ NewStart(i) = OldStart(i)
           /\ NewEnd(i) = OldEnd(i) - 1440
           /\ \E k \in ChangesFor(i) : result.changes[k].delayMinutes = -1440
           /\ NewStart(j) > OldStart(j)
           /\ \E k \in ChangesFor(j) : result.changes[k].delayMinutes > 0

\* dependency j of order i was placed when i was
PlacedBefore(j, i) == In(j).isMaintenance \/ Before(j, i)

\* C34: change reason classification. A record whose new start is later than
\* the original start names the dependency completion when at least one
\* dependency placed before the order has an updated end after the order's
\* original start, and the work center conflict otherwise; a record whose start
\* is unchanged, only the end having changed, names the duration recalculation.
C34_ChangeReasons ==
    Placed =>
        \A i \in Orders :
            \A k \in ChangesFor(i) :
                IF NewStart(i) > OldStart(i)
                THEN IF \E j \in Orders :
                            /\ DependsOn(i, j) /\ PlacedBefore(j, i)
                            /\ NewEnd(j) > OldStart(i)
                     THEN result.changes[k].reason
                              = "Pushed forward due to dependency completion"
                     ELSE result.changes[k].reason
                              = "Pushed forward due to work center conflict"
                ELSE /\ NewStart(i) = OldStart(i)
                     /\ NewEnd(i) # OldEnd(i)
                     /\ result.changes[k].reason = "Recalculated end date based on duration"

\* an order moved from Saturday to Monday by the calendar, whose dependency
\* ended on Friday: the record names the work center conflict
C34_Witness ==
    /\ Placed
    /\ \E i, j \in Orders :
           /\ DependsOn(i, j) /\ PlacedBefore(j, i)
           /\ NewEnd(j) <= OldStart(i)
           /\ NewStart(i) > OldStart(i)
           /\ \E k \in ChangesFor(i) :
                  result.changes[k].reason = "Pushed forward due to work center conflict"

\* ------------------------------------------------ graph build: the claims

\* C35 as claimed: the dependency lists of a built graph name nodes only, and
\* d is among the dependents of p exactly when p is among the dependencies of d.
C35_BuildDropsDangling ==
    gPc # "new" =>
        /\ \A d \in SeqToSet(GraphIds) :
               SeqToSet(getDependencies(gNodes, d)) \subseteq GraphNodeIds
        /\ \A d, p \in SeqToSet(GraphIds) :
               d \in SeqToSet(getDependents(gNodes, p))
                   <=> p \in SeqToSet(getDependencies(gNodes, d))

\* C35: graph build. After build(orders) on orders with distinct ids the graph
\* has one node per order; getDependencies(id) is the order's declared list,
\* ids that name no node included; getDependents lists nodes only, is empty for
\* an id that names no node, and among the nodes it is the exact inverse:
\* d is in getDependents(p) iff p is in getDependencies(d).
C35_BuildInvertsAmongNodes ==
    gPc # "new" =>
        /\ GraphNodeIds = {gOrders[i].docId : i \in 1..Len(gOrders)}
        /\ \A i \in 1..Len(gOrders) :
               getDependencies(gNodes, gOrders[i].docId)
                   = gOrders[i].data.dependsOnWorkOrderIds
        /\ \A p \in SeqToSet(GraphIds) :
               /\ SeqToSet(getDependents(gNodes, p)) \subseteq GraphNodeIds
               /\ p \notin GraphNodeIds => getDependents(gNodes, p) = <<>>
        /\ \A d, p \in GraphNodeIds :
               d \in SeqToSet(getDependents(gNodes, p))
                   <=> p \in SeqToSet(getDependencies(gNodes, d))

\* a built graph whose first node names a node and an id that names no node:
\* the id stays in its dependency list and has no dependents
C35_Witness ==
    /\ gPc = "built"
    /\ \E p \in GraphNodeIds :
           /\ getDependencies(gNodes, IdOf[1]) = <<p, "wo-x">>
           /\ IdOf[1] \in SeqToSet(getDependents(gNodes, p))
    /\ "wo-x" \notin GraphNodeIds
    /\ getDependents(gNodes, "wo-x") = <<>>

\* ------------------------------------------------ placement: the last claims

\* C36: zero or negative working time is a no-op placement. An order whose
\* durationMinutes + setupTimeMinutes is zero or less is placed, on every
\* acyclic input, with its output end equal to its output start.
C36_NoWorkingTimeNoOp ==
    /\ (pc = "done" /\ ~Cyclic) => Placed
    /\ Placed =>
           \A i \in Orders :
               (~In(i).isMaintenance /\ TotalMinutes(workOrders[i]) <= 0) =>
                   NewEnd(i) = NewStart(i)

\* an order with a working time of -30 minutes whose start lies inside another
\* order's slot: it is placed at the end of that slot, with end = start
C36_Witness ==
    /\ Placed
    /\ \E i, j \in Orders :
           /\ ~In(i).isMaintenance /\ ~In(j).isMaintenance
           /\ TotalMinutes(workOrders[i]) = -30
           /\ SameCenter(i, j)
           /\ NewStart(j) < OldStart(i) /\ OldStart(i) < NewEnd(j)
           /\ NewStart(i) = NewEnd(j)
           /\ NewEnd(i) = NewStart(i)

\* C37: orders only move later. For every acyclic input and every schedulable
\* order the output start is at or after the original start and the output end
\* is at or after the output start.
C37_OrdersOnlyMoveLater ==
    /\ (pc = "done" /\ ~Cyclic) => Placed
    /\ Placed =>
           \A i \in Orders :
               ~In(i).isMaintenance =>
                   /\ NewStart(i) >= OldStart(i)
                   /\ NewEnd(i) >= NewStart(i)

\* a Saturday order whose dependency ended on Friday: it is not pulled back to
\* the dependency's end but moves on to Monday, while the dependency keeps its
\* start and its end, given a day too late, moves earlier
C37_Witness ==
    /\ Placed
    /\ \E i, j \in Orders :
           /\ ~In(i).isMaintenance /\ ~In(j).isMaintenance
           /\ DependsOn(i, j) /\ PlacedBefore(j, i)
           /\ NewEnd(j) < OldStart(i)
           /\ NewStart(i) > OldStart(i)
           /\ NewEnd(i) > NewStart(i)
           /\ NewStart(j) = OldStart(j)
           /\ NewEnd(j) < OldEnd(j)

\* every dependency of order i that is in the input was placed before it
DependenciesPlacedFirst(i) == \A j \in Orders : DependsOn(i, j) => PlacedBefore(j, i)

\* C38: dependency ordering under consistent priorities. A schedulable order
\* whose every existing dependency is a maintenance order or precedes it in the
\* placement order starts, in the output, at or after the output end of each of
\* these dependencies.
C38_DependencyOrderingWhenSortedFirst ==
    Placed =>
        \A i \in Orders :
            (~In(i).isMaintenance /\ DependenciesPlacedFirst(i)) =>
                \A j \in Orders : DependsOn(i, j) => NewStart(i) >= NewEnd(j)

\* an order of priority 5 on one work center waits for its dependency of
\* priority 1 on another, which starts no earlier than it
C38_Witness ==
    /\ Placed
    /\ \E i, j \in Orders :
           /\ ~In(i).isMaintenance /\ ~In(j).isMaintenance
           /\ DependenciesPlacedFirst(i)
           /\ DependsOn(i, j)
           /\ ~SameCenter(i, j)
           /\ In(i).priority = Some(5) /\ In(j).priority = Some(1)
           /\ OldStart(j) >= OldStart(i)
           /\ NewEnd(j) > OldStart(i)
           /\ NewStart(i) >= NewEnd(j)
           /\ NewStart(i) > OldStart(i)

\* ------------------------------------------------ relations between runs

\* the input without the schedulable orders placed after order i: the
\* maintenance orders, the orders placed before i and i itself, in input order
UpTo(i) ==
    LET kept == {k \in Orders : In(k).isMaintenance \/ k = i \/ Before(k, i)}
    IN  [n \in 1..Cardinality(kept) |->
            workOrders[CHOOSE k \in kept : Cardinality({j \in kept : j <= k}) = n]]

\* the run of reflow on the input without the orders placed after order i
RunUpTo(i) == reflow(<<>>, UpTo(i), workCenters)

\* order i as the run without the orders placed after it returns it
AloneOut(i) ==
    LET at == CHOOSE k \in 1..Len(UpTo(i)) : UpTo(i)[k].docId = workOrders[i].docId
    IN  RunUpTo(i).updatedWorkOrders[at].data

\* C39: later orders cannot influence earlier ones. On every acyclic input a
\* schedulable order gets the output interval it gets when the schedulable
\* orders placed after it are taken out of the input: the interval is a function
\* of the work centers, the maintenance orders and the orders placed before it,
\* so adding, removing or changing an order that sorts after it, without making
\* a cycle, leaves it unchanged.
C39_LaterOrdersDoNotInfluence ==
    Placed =>
        \A i \in Orders :
            ~In(i).isMaintenance =>
                /\ RunUpTo(i).returned
                /\ RunUpTo(i).explanation.kind # "Cycle detected in dependencies: "
                /\ AloneOut(i).startDate = Out(i).startDate
                /\ AloneOut(i).endDate = Out(i).endDate

\* an order that names, as a dependency, an order of its work center placed
\* after it: it keeps its start although the other order ends after that, and
\* the other order is pushed behind it
C39_Witness ==
    /\ Placed
    /\ \E i, j \in Orders :
           /\ ~In(i).isMaintenance /\ ~In(j).isMaintenance
           /\ Before(i, j)
           /\ SameCenter(i, j)
           /\ DependsOn(i, j)
           /\ Len(UpTo(i)) < Len(workOrders)
           /\ NewStart(i) = OldStart(i)
           /\ OldEnd(j) > OldStart(i)
           /\ NewStart(j) >= NewEnd(i)
           /\ NewStart(j) > OldStart(j)

\* a second run of reflow on the orders the first run returned
SecondRun == reflow(<<>>, result.updatedWorkOrders, workCenters)

\* C40: reflow is idempotent. For every acyclic input, reflow on the
\* updatedWorkOrders of a first run, with the same work centers, returns no
\* change and the same start and end for every order.
C40_Idempotent ==
    Placed =>
        /\ SecondRun.returned
        /\ SecondRun.changes = <<>>
        /\ \A i \in Orders :
               /\ SecondRun.updatedWorkOrders[i].data.startDate = Out(i).startDate
               /\ SecondRun.updatedWorkOrders[i].data.endDate = Out(i).endDate

\* ------------------------------------------------ calendar: the claims

C10_PureDurationArithmetic ==
    (cPc = "done" /\ Len(cShifts) = 0 /\ Len(cWindows) = 0) =>
        /\ parseDate(cEnd) = parseDate(cDate) + cMinutes
        /\ cMinutes = 0 => cEnd = cDate

C10_Witness ==
    /\ cPc = "done"
    /\ Len(cShifts) = 0
    /\ Len(cWindows) = 0
    /\ cMinutes = 540
    /\ parseDate(cEnd) = parseDate(cDate) + 540

====
